---- MODULE Spec2Model ----
(***************************************************************************)
(* The interactive command prompt (icp): the edit buffer `Input`, its      *)
(* `History`, the `CommandsTable` dispatcher with the built-in `help`      *)
(* command, and the argument / command parser combinators.                 *)
(*                                                                         *)
(* A string is a sequence of code points.  A code point is written as a    *)
(* one-character TLA+ string ("e", " "), or as "U+XXXX" for a code point   *)
(* whose UTF-8 encoding takes more than one byte.  Positions are either    *)
(* code point indexes (0-based, as `Input::pos`) or byte offsets (0-based, *)
(* as everything the `regex` and `str` APIs return); the two are kept      *)
(* apart exactly where the source keeps them apart.                        *)
(* Message texts that are only ever joined and shown are TLA+ strings.     *)
(***************************************************************************)
EXTENDS Integers, Sequences, FiniteSets, TLC

VARIABLES
    commands,         \* Input::commands, the CommandsTable (a list of commands)
    input,            \* Input::input
    pos,              \* Input::pos, in code points
    inline_hint,      \* Input::inline_hint
    completion,       \* Input::completion
    end_of_line_hint, \* Input::end_of_line_hint
    suggestions,      \* Input::suggestions
    usage,            \* Input::usage
    command,          \* Input::command, the bound executor
    history,          \* Input::history: [entries, current]
    terminal,         \* the lines pushed to the TerminalContentRef
    fault,            \* TRUE once an operation has panicked
    invoked,          \* record of the calls: what each invoked executor was and found
    heap,             \* the owners: handles held by the caller and the strong counts
    acc,              \* the ArgParseRes a chain of merge calls has produced
    appended,         \* record of the calls: the texts given to History::append, newest first
    streak,           \* record of the calls: consecutive History::prev calls since not browsing
    called            \* record of the calls: an operation has been called

vars == <<commands, input, pos, inline_hint, completion, end_of_line_hint,
          suggestions, usage, command, history, terminal, fault, invoked,
          heap, acc, appended, streak, called>>

(***************************************************************************)
(* Bounds of the model.                                                    *)
(***************************************************************************)
MaxLen == 2        \* insert and complete act on inputs shorter than this
MaxExec == 1       \* executed commands in the edit machine
MaxAppend == 3     \* History::append calls in the history machine
MaxStreak == 5     \* consecutive History::prev calls that are counted
ParseLen == 4      \* longest enumerated input of the parse machine
MaxHandles == 2    \* CommandsTable handles the caller holds in the owners machine
MaxHeld == 1       \* help executors the caller holds in the owners machine
MaxInvoke == 2     \* calls of help executors in the owners machine
MaxUpTo == 2       \* largest parsed_up_to of a failure in the merge machine
MaxReasons == 5    \* longest list of reasons a merge is applied to

None == [some |-> FALSE]
Some(v) == [some |-> TRUE, v |-> v]

Min(a, b) == IF a <= b THEN a ELSE b
Max(a, b) == IF a >= b THEN a ELSE b

(***************************************************************************)
(* Code points.                                                            *)
(***************************************************************************)
TwoByteChars == {"U+00A0", "U+00E9", "U+0085"}
FourByteChars == {"U+1F642"}
Digits == <<"0", "1", "2", "3", "4", "5", "6", "7", "8", "9">>

\* char::len_utf8
len_utf8(c) == IF c \in FourByteChars THEN 4 ELSE IF c \in TwoByteChars THEN 2 ELSE 1

\* `\s` of the regex crate and char::is_whitespace: Unicode White_Space
is_whitespace(c) == c \in {" ", "\t", "\n", "\r", "U+00A0", "U+0085"}

\* char::is_control
is_control(c) == c \in {"\t", "\n", "\r", "U+0085"}

\* `\d` restricted to the digits the model types
is_digit(c) == \E i \in 1..10 : Digits[i] = c

(***************************************************************************)
(* Strings: byte offsets and code point indexes.                           *)
(***************************************************************************)
RECURSIVE ByteLen(_)
ByteLen(s) == IF s = <<>> THEN 0 ELSE len_utf8(Head(s)) + ByteLen(Tail(s))

Take(s, n) == SubSeq(s, 1, Min(n, Len(s)))
Drop(s, n) == SubSeq(s, Min(n, Len(s)) + 1, Len(s))

\* byte offset of the code point with index i (i = Len(s): the end)
ByteOff(s, i) == ByteLen(Take(s, i))

\* str::is_char_boundary
is_char_boundary(s, b) == \E i \in 0..Len(s) : ByteOff(s, i) = b

\* the code point index of a byte offset that is a boundary
CharIdx(s, b) == CHOOSE i \in 0..Len(s) : ByteOff(s, i) = b

\* &s[from..to] is taken without a panic
SliceOk(s, from, to) ==
    from <= to /\ to <= ByteLen(s) /\ is_char_boundary(s, from) /\ is_char_boundary(s, to)

\* &s[from..to], byte offsets
ByteSlice(s, from, to) == SubSeq(s, CharIdx(s, from) + 1, CharIdx(s, to))

\* str::starts_with
starts_with(s, p) == Len(p) <= Len(s) /\ SubSeq(s, 1, Len(p)) = p

RECURSIVE StrOf(_)
StrOf(s) == IF s = <<>> THEN "" ELSE Head(s) \o StrOf(Tail(s))

\* [String]::join
RECURSIVE join(_, _)
join(texts, sep) ==
    IF texts = <<>> THEN ""
    ELSE IF Len(texts) = 1 THEN texts[1]
    ELSE texts[1] \o sep \o join(Tail(texts), sep)

\* icp::str_byte_pos
str_byte_pos(s, p) == IF p < Len(s) THEN ByteOff(s, p) ELSE ByteLen(s)

(***************************************************************************)
(* common_prefix                                                           *)
(***************************************************************************)
\* index (1-based) of the first code point where res and next differ, 0 if none
FirstMismatch(res, next) ==
    LET n == Min(Len(res), Len(next))
        D == {i \in 1..n : res[i] # next[i]}
    IN IF D = {} THEN 0 ELSE CHOOSE i \in D : \A j \in D : i <= j

common_prefix_step(res, next) ==
    LET m == FirstMismatch(res, next)
        matched_end == IF m = 0 THEN Min(ByteLen(res), ByteLen(next))
                       ELSE ByteOff(res, m - 1)
    IN ByteSlice(res, 0, matched_end)

RECURSIVE common_prefix_fold(_, _)
common_prefix_fold(res, options) ==
    IF options = <<>> THEN res
    ELSE common_prefix_fold(common_prefix_step(res, Head(options)), Tail(options))

common_prefix(options) ==
    IF options = <<>> THEN <<>> ELSE common_prefix_fold(Head(options), Tail(options))

(***************************************************************************)
(* History                                                                 *)
(***************************************************************************)
History_new == [entries |-> <<>>, current |-> 0]

\* History::prev that stops one entry short of the oldest
History_prev_short(h, cur) ==
    IF h.entries = <<>> THEN [h |-> h, ret |-> cur]
    ELSE LET h2 == IF h.current = 0
                   THEN [entries |-> <<cur>> \o h.entries, current |-> 1]
                   ELSE IF h.current < Len(h.entries) - 2
                        THEN [h EXCEPT !.current = h.current + 1]
                        ELSE h
         IN [h |-> h2, ret |-> h2.entries[h2.current + 1]]

\* History::prev: [h |-> the history afterwards, ret |-> the returned text].
\* `current` is 0-based, entries[current + 1] is VecDeque::get(current).
History_prev(h, cur) ==
    IF h.entries = <<>> THEN [h |-> h, ret |-> cur]
    ELSE LET h2 == IF h.current = 0
                   THEN [entries |-> <<cur>> \o h.entries, current |-> 1]
                   ELSE IF h.current < Len(h.entries) - 1
                        THEN [h EXCEPT !.current = h.current + 1]
                        ELSE h
         IN [h |-> h2, ret |-> h2.entries[h2.current + 1]]

\* History::next that leaves the scratch entry in place when it returns to it
History_next_keep_scratch(h, cur) ==
    IF h.current = 0 \/ h.entries = <<>> THEN [h |-> h, ret |-> cur]
    ELSE IF h.current = 1
         THEN [h |-> [h EXCEPT !.current = 0], ret |-> Head(h.entries)]
         ELSE LET h2 == [h EXCEPT !.current = h.current - 1]
              IN [h |-> h2, ret |-> h2.entries[h2.current + 1]]

\* History::next
History_next(h, cur) ==
    IF h.current = 0 \/ h.entries = <<>> THEN [h |-> h, ret |-> cur]
    ELSE IF h.current = 1
         THEN [h |-> [entries |-> Tail(h.entries), current |-> 0], ret |-> Head(h.entries)]
         ELSE LET h2 == [h EXCEPT !.current = h.current - 1]
              IN [h |-> h2, ret |-> h2.entries[h2.current + 1]]

\* History::append that leaves the scratch entry in place
History_append_keep_scratch(h, text) ==
    [entries |-> <<text>> \o h.entries, current |-> 0]

\* History::append
History_append(h, text) ==
    LET h2 == IF h.current # 0
              THEN [entries |-> Tail(h.entries), current |-> 0]
              ELSE h
    IN [h2 EXCEPT !.entries = <<text>> \o h2.entries]

(***************************************************************************)
(* Argument parsers.  A parser is a record: its `kind` and its fields.     *)
(***************************************************************************)
\* ArgParseRes
ArgParsed(v) == [parsed |-> TRUE, value |-> v]
ArgFailed(n, reason) == [parsed |-> FALSE, parsed_up_to |-> n, reason |-> reason]

\* ArgParseRes::merge that puts the reasons of `other` first
ArgParseRes_merge_other_first(me, other) ==
    IF me.parsed THEN me
    ELSE IF other.parsed THEN other
    ELSE IF me.parsed_up_to < other.parsed_up_to THEN other
    ELSE IF me.parsed_up_to > other.parsed_up_to THEN me
    ELSE ArgFailed(me.parsed_up_to, other.reason \o me.reason)

\* ArgParseRes::merge
ArgParseRes_merge(me, other) ==
    IF me.parsed THEN me
    ELSE IF other.parsed THEN other
    ELSE IF me.parsed_up_to < other.parsed_up_to THEN other
    ELSE IF me.parsed_up_to > other.parsed_up_to THEN me
    ELSE ArgFailed(me.parsed_up_to, me.reason \o other.reason)

\* keyword_set_with_hint, keyword_set
keyword_set_with_hint(keywords, hints) ==
    [kind |-> "keyword_set", keywords |-> keywords, hints |-> hints]
keyword_set(keywords) ==
    keyword_set_with_hint(keywords, [i \in 1..Len(keywords) |-> StrOf(keywords[i])])

\* keyword_set.rs common_prefix_len, in code points
common_prefix_len(s1, s2) ==
    LET m == FirstMismatch(s1, s2)
    IN IF m = 0 THEN Min(Len(s1), Len(s2)) ELSE m - 1

RECURSIVE MaxOver(_, _, _)
MaxOver(ks, s, i) ==
    IF i > Len(ks) THEN 0 ELSE Max(common_prefix_len(s, ks[i]), MaxOver(ks, s, i + 1))

\* KeywordSetArgParser::parse
keyword_set_parse(p, s) ==
    IF \E i \in 1..Len(p.keywords) : p.keywords[i] = s
    THEN ArgParsed(s)
    ELSE ArgFailed(MaxOver(p.keywords, s, 1), p.hints)

\* the filter of KeywordSetArgParser::suggestion without `k.len() > prefix.len()`
RECURSIVE keyword_set_filter_not_strict(_, _)
keyword_set_filter_not_strict(ks, prefix) ==
    IF ks = <<>> THEN <<>>
    ELSE (IF starts_with(Head(ks), prefix) THEN <<Head(ks)>> ELSE <<>>)
         \o keyword_set_filter_not_strict(Tail(ks), prefix)

\* KeywordSetArgParser::suggestion
RECURSIVE keyword_set_filter(_, _)
keyword_set_filter(ks, prefix) ==
    IF ks = <<>> THEN <<>>
    ELSE (IF starts_with(Head(ks), prefix) /\ ByteLen(Head(ks)) > ByteLen(prefix)
          THEN <<Head(ks)>> ELSE <<>>) \o keyword_set_filter(Tail(ks), prefix)

keyword_set_suggestion(p, prefix) == keyword_set_filter(p.keywords, prefix)

\* prim_int_for_range (name = None) and prim_int_for_range_and_name, over an
\* integer type with the values tmin..tmax
prim_int_for_range(tmin, tmax, min, max, name) ==
    [kind |-> "prim_int", tmin |-> tmin, tmax |-> tmax, min |-> min, max |-> max,
     name |-> name]

\* PrimIntArgParser::hint
prim_int_hint(p) ==
    LET range == IF p.min < 0
                 THEN ToString(p.min) \o " - " \o ToString(p.max)
                 ELSE ToString(p.min) \o "-" \o ToString(p.max)
    IN IF p.name.some THEN << "<" \o p.name.v \o ": " \o range \o ">" >>
       ELSE << "<" \o range \o ">" >>

DigitValue(c) == (CHOOSE i \in 1..10 : Digits[i] = c) - 1

RECURSIVE DecimalValue(_)
DecimalValue(ds) ==
    IF ds = <<>> THEN 0 ELSE 10 * DecimalValue(SubSeq(ds, 1, Len(ds) - 1)) + DigitValue(ds[Len(ds)])

\* length in code points of the match of ^-?\d+ , 0 when there is none
NumberPrefixLen(s) ==
    LET sign == IF s # <<>> /\ s[1] = "-" THEN 1 ELSE 0
        E == {n \in sign..Len(s) : \A i \in (sign + 1)..n : is_digit(s[i])}
        n == CHOOSE n \in E : \A k \in E : k <= n
    IN IF n > sign THEN n ELSE 0

\* PrimIntArgParser::parse
\* PrimIntArgParser::parse with FromStr accepting every value
prim_int_parse_any_value(p, s) ==
    LET n == NumberPrefixLen(s)
        neg == s # <<>> /\ s[1] = "-"
        mag == DecimalValue(SubSeq(s, IF neg THEN 2 ELSE 1, Len(s)))
        v == IF neg THEN 0 - mag ELSE mag
        named == IF p.name.some THEN " " \o p.name.v ELSE ""
    IN IF s = <<>> \/ n # Len(s) THEN ArgFailed(ByteOff(s, n), prim_int_hint(p))
       ELSE IF v < p.min THEN ArgFailed(ByteLen(s), << "min" \o named \o ": " \o ToString(p.min) >>)
       ELSE IF v > p.max THEN ArgFailed(ByteLen(s), << "max" \o named \o ": " \o ToString(p.max) >>)
       ELSE ArgParsed(v)

prim_int_parse(p, s) ==
    LET n == NumberPrefixLen(s)
        neg == s # <<>> /\ s[1] = "-"
        mag == DecimalValue(SubSeq(s, IF neg THEN 2 ELSE 1, Len(s)))
        v == IF neg THEN 0 - mag ELSE mag
        from_str_ok == v >= p.tmin /\ v <= p.tmax /\ (neg => p.tmin < 0)
        named == IF p.name.some THEN " " \o p.name.v ELSE ""
    IN IF s = <<>> \/ n # Len(s) THEN ArgFailed(ByteOff(s, n), prim_int_hint(p))
       ELSE IF ~from_str_ok THEN ArgFailed(ByteLen(s), prim_int_hint(p))
       ELSE IF v < p.min THEN ArgFailed(ByteLen(s), << "min" \o named \o ": " \o ToString(p.min) >>)
       ELSE IF v > p.max THEN ArgFailed(ByteLen(s), << "max" \o named \o ": " \o ToString(p.max) >>)
       ELSE ArgParsed(v)

\* ContextFreeArgParser::parse / suggestion / hint, by kind of parser
ArgParse(p, s) ==
    IF p.kind = "keyword_set" THEN keyword_set_parse(p, s) ELSE prim_int_parse(p, s)
ArgSuggestion(p, prefix) ==
    IF p.kind = "keyword_set" THEN keyword_set_suggestion(p, prefix) ELSE <<>>
ArgHint(p) ==
    IF p.kind = "keyword_set" THEN p.hints ELSE prim_int_hint(p)

(***************************************************************************)
(* Command parsers.  `cur` (the cursor) is an Option of a code point index into the     *)
(* parser's input; token bounds in results are byte offsets into it.       *)
(***************************************************************************)
\* CommandParseRes and CommandParseFailure
CmdParsed(exec) == [parsed |-> TRUE, exec |-> exec]
CmdFailed(n, reason) == [parsed |-> FALSE, parsed_up_to |-> n, reason |-> reason]
ArgumentParseFailed(from, to, reason) ==
    [kind |-> "ArgumentParseFailed", from |-> from, to |-> to, reason |-> reason]
ExpectedArg(index, hint) == [kind |-> "ExpectedArg", index |-> index, hint |-> hint]
UnexpectedArgument(from) == [kind |-> "UnexpectedArgument", from |-> from]

\* the whitespace separated tokens of s from code point index i on, each with
\* its bounds [from, to) in code points
RECURSIVE Tokens(_, _)
Tokens(s, i) ==
    IF i >= Len(s) THEN <<>>
    ELSE IF is_whitespace(s[i + 1]) THEN Tokens(s, i + 1)
    ELSE LET E == {j \in (i + 1)..Len(s) : j = Len(s) \/ is_whitespace(s[j + 1])}
             e == CHOOSE j \in E : \A k \in E : j <= k
         IN <<[from |-> i, to |-> e]>> \o Tokens(s, e)

\* command_no_args, command_1arg, command_2args: the executor a successful
\* parse builds is [cmd |-> exec, args |-> the parsed values]
command_no_args(exec) == [kind |-> "args", args |-> <<>>, exec |-> exec]
command_1arg(arg1, exec) == [kind |-> "args", args |-> <<arg1>>, exec |-> exec]
command_2args(arg1, arg2, exec) == [kind |-> "args", args |-> <<arg1, arg2>>, exec |-> exec]

\* The parse of the argument slots i.. of p, the earlier slots having parsed
\* to `values`; `seen` is the suggestions of an earlier token holding the cursor.
RECURSIVE command_args_slots(_, _, _, _, _, _, _)
command_args_slots(p, s, cur, toks, i, values, seen) ==
    LET last_end == IF i = 1 THEN 0 ELSE ByteOff(s, toks[i - 1].to)
    IN IF i > Len(p.args)
       THEN IF Len(toks) >= i
            THEN [res |-> CmdFailed(last_end, UnexpectedArgument(ByteOff(s, toks[i].from))),
                  suggestions |-> seen]
            ELSE [res |-> CmdParsed([cmd |-> p.exec, args |-> values]), suggestions |-> seen]
       ELSE IF i > Len(toks)
            THEN [res |-> CmdFailed(last_end, ExpectedArg(i - 1, ArgHint(p.args[i]))),
                  suggestions |-> IF cur.some /\ (i = 1 \/ cur.v > toks[i - 1].to)
                                  THEN Some(ArgSuggestion(p.args[i], <<>>))
                                  ELSE None]
            ELSE LET t == toks[i]
                     token == SubSeq(s, t.from + 1, t.to)
                     r == ArgParse(p.args[i], token)
                     in_token == cur.some /\ t.from <= cur.v /\ cur.v <= t.to
                     here == IF in_token
                             THEN Some(ArgSuggestion(p.args[i], Take(token, cur.v - t.from)))
                             ELSE None
                 IN IF ~r.parsed
                    THEN [res |-> CmdFailed(ByteOff(s, t.to),
                                     ArgumentParseFailed(ByteOff(s, t.from), ByteOff(s, t.to),
                                                         r.reason)),
                          suggestions |-> here]
                    ELSE command_args_slots(p, s, cur, toks, i + 1, Append(values, r.value),
                                            IF in_token THEN here ELSE seen)

command_args_parse(p, s, cur) == command_args_slots(p, s, cur, Tokens(s, 0), 1, <<>>, None)

\* CommandParseRes::merge.  Of two failures with the same parsed_up_to the
\* hints of two ExpectedArg are joined, and of two ArgumentParseFailed the
\* first is kept: tests::simple_alternatives_parser expects the hint
\* ["<side>", "reset"] for "" and the reason ["<side>"] alone for "ea", where
\* both alternatives fail on the token [0, 2)
CommandParseRes_merge(me, other) ==
    IF me.parsed THEN me
    ELSE IF other.parsed THEN other
    ELSE IF me.parsed_up_to < other.parsed_up_to THEN other
    ELSE IF me.parsed_up_to > other.parsed_up_to THEN me
    ELSE IF me.reason.kind # other.reason.kind THEN me
    ELSE IF me.reason.kind = "ExpectedArg"
         THEN [me EXCEPT !.reason.hint = me.reason.hint \o other.reason.hint]
    ELSE me

\* alternatives_cmd: an empty list fails the assertion
alternatives_cmd(parsers) ==
    IF parsers = <<>> THEN [panic |-> TRUE]
    ELSE [kind |-> "alternatives", parsers |-> parsers]

\* AlternativesCommandParser::parse, the loop over the parsers after the first
\* one turn of the loop: the result r of the next parser joins `combined`
alternatives_step(combined, r) ==
    [res |-> CommandParseRes_merge(combined.res, r.res),
     suggestions |-> IF ~combined.suggestions.some THEN r.suggestions
                     ELSE IF ~r.suggestions.some THEN combined.suggestions
                     ELSE Some(combined.suggestions.v \o r.suggestions.v)]

RECURSIVE alternatives_fold(_, _, _, _)
alternatives_fold(combined, parsers, s, cur) ==
    IF parsers = <<>> THEN combined
    ELSE alternatives_fold(alternatives_step(combined, command_args_parse(Head(parsers), s, cur)),
                           Tail(parsers), s, cur)

alternatives_parse(p, s, cur) ==
    alternatives_fold(command_args_parse(Head(p.parsers), s, cur), Tail(p.parsers), s, cur)

\* CommandParser::parse, by kind of parser
CommandParser_parse(p, s, cur) ==
    IF p.kind = "alternatives" THEN alternatives_parse(p, s, cur)
    ELSE command_args_parse(p, s, cur)

(***************************************************************************)
(* Commands, the built-in help command and the CommandsTable.              *)
(***************************************************************************)
help_keyword == <<"h", "e", "l", "p">>

\* Help::new: the Help command, its Inner still Uninitialized
Help_new ==
    [keyword |-> help_keyword,
     short_usage |-> "All the commands and their descriptions.",
     long_usage |-> <<"help", "", "    Shows the list of all the supported commands along with their",
                      "    descriptions.", "", "help <command>", "",
                      "    Show detailed description of the specified command.">>,
     parser |-> [kind |-> "help", inner |-> "Uninitialized"]]

Keywords(table) == [i \in 1..Len(table) |-> table[i].keyword]

\* Help::set_commands with the keywords of the user's commands only
Help_parser_users_only(table) ==
    alternatives_cmd(<<command_no_args("help_for_all"),
                       command_1arg(keyword_set_with_hint(SubSeq(Keywords(table), 1, Len(table) - 1),
                                                          <<"<command name>">>),
                                    "help_for")>>)

\* Help::set_commands: the parser Inner::Initialized holds for this table
Help_parser(table) ==
    alternatives_cmd(<<command_no_args("help_for_all"),
                       command_1arg(keyword_set_with_hint(Keywords(table), <<"<command name>">>),
                                    "help_for")>>)

\* the closure help::command returns, applied to the table that holds its
\* Help as the last command: the Inner of that Help becomes Initialized
Help_set_commands(table) ==
    [table EXCEPT ![Len(table)].parser.inner = "Initialized"]

\* CommandsTable::new that puts the Help command first
CommandsTable_new_help_first(user_commands) ==
    [i \in 1..(Len(user_commands) + 1) |->
        IF i = 1 THEN Help_set_commands(<<Help_new>>)[1] ELSE user_commands[i - 1]]

\* CommandsTable::new that does not call the initializer of the Help command
CommandsTable_new_no_initializer(user_commands) == user_commands \o <<Help_new>>

\* CommandsTable::new
CommandsTable_new(user_commands) == Help_set_commands(user_commands \o <<Help_new>>)

\* Command::parse: [panic, res, suggestions]
Command_parse(table, c, s, cur) ==
    IF c.parser.kind = "help"
    THEN IF c.parser.inner = "Uninitialized"
         THEN [panic |-> TRUE]
         ELSE [panic |-> FALSE] @@ CommandParser_parse(Help_parser(table), s, cur)
    ELSE [panic |-> FALSE] @@ CommandParser_parse(c.parser, s, cur)

\* EndOfLineHintTarget, EndOfLineHint
WholeLine == [kind |-> "WholeLine"]
Substring(from, to) == [kind |-> "Substring", from |-> from, to |-> to]
EndOfLineHint(target, type_, text) == [target |-> target, type_ |-> type_, text |-> text]

\* ParseRes; `panic` is set when the parse did not return
ParseRes(hint, compl, eol, sugg, usg, cmd) ==
    [panic |-> FALSE, inline_hint |-> hint, completion |-> compl, end_of_line_hint |-> eol,
     suggestions |-> sugg, usage |-> usg, command |-> cmd]
ParsePanic == [panic |-> TRUE]

CommandHintText == <<"<", "c", "o", "m", "m", "a", "n", "d", ">">>

\* table.rs empty_input
empty_input(table) ==
    ParseRes(Some(CommandHintText), None, None, Keywords(table),
             Some("Waiting for a command"), None)

\* table.rs no_match
no_match ==
    ParseRes(None, None, Some(EndOfLineHint(WholeLine, "Error", "TODO no_match")), <<>>,
             Some("TODO: usage"), None)

\* table.rs prefix_command_no_hints
prefix_command_no_hints ==
    ParseRes(None, None,
             Some(EndOfLineHint(WholeLine, "Info", "TODO prefix_command_no_hints")), <<>>,
             Some("TODO: prefix_command_no_hints usage"), None)

\* hint_and_completion that completes with the whole common prefix
hint_and_completion_whole(prefix, keywords) ==
    LET common == common_prefix(keywords)
        rest == ByteSlice(common, ByteLen(prefix), ByteLen(common))
    IN IF common = <<>> \/ ByteLen(common) = ByteLen(prefix) THEN <<None, None>>
       ELSE IF ByteLen(common) = 1 THEN <<Some(rest), Some(common \o <<" ">>)>>
       ELSE <<Some(rest), Some(common)>>

\* table.rs hint_and_completion: <<inline_hint, completion>>
hint_and_completion(prefix, keywords) ==
    LET common == common_prefix(keywords)
        rest == ByteSlice(common, ByteLen(prefix), ByteLen(common))
    IN IF common = <<>> \/ ByteLen(common) = ByteLen(prefix) THEN <<None, None>>
       ELSE IF ByteLen(common) = 1 THEN <<Some(rest), Some(rest \o <<" ">>)>>
       ELSE <<Some(rest), Some(rest)>>

\* table.rs prefix_command
prefix_command(prefix, matching) ==
    LET hc == hint_and_completion(prefix, Keywords(matching))
    IN ParseRes(hc[1], hc[2], Some(EndOfLineHint(WholeLine, "Info", "<command>")),
                Keywords(matching), Some("TODO: prefix_command usage"), None)

\* table.rs parse_args, the match on the result res of command.parse with
\* the suggestions sugg
parse_args_match(res, sugg, args_end) ==
    LET usg == Some("TODO: parse_args usage")
    IN IF res.parsed THEN ParseRes(None, None, None, sugg, usg, Some(res.exec))
       ELSE IF res.reason.kind = "ArgumentParseFailed"
            THEN ParseRes(None, None,
                          Some(EndOfLineHint(Substring(res.reason.from, res.reason.to),
                                             "Error", join(res.reason.reason, " | "))),
                          sugg, usg, None)
       ELSE IF res.reason.kind = "ExpectedArg"
            THEN ParseRes(None, None,
                          Some(EndOfLineHint(WholeLine, "Error", join(res.reason.hint, " | "))),
                          sugg, usg, None)
       ELSE ParseRes(None, None,
                     Some(EndOfLineHint(Substring(res.reason.from, args_end), "Error",
                                        "Unexpected argument")),
                     sugg, usg, None)

\* table.rs parse_args, on the result r of command.parse
parse_args_on(r, args_end) ==
    IF r.panic THEN ParsePanic
    ELSE parse_args_match(r.res, IF r.suggestions.some THEN r.suggestions.v ELSE <<>>, args_end)

\* table.rs parse_args
parse_args(table, c, args, cur, args_end) ==
    parse_args_on(Command_parse(table, c, args, cur), args_end)

\* the commands whose keyword starts with word, in table order
RECURSIVE Matching(_, _)
Matching(table, word) ==
    IF table = <<>> THEN <<>>
    ELSE (IF starts_with(Head(table).keyword, word) THEN <<Head(table)>> ELSE <<>>)
         \o Matching(Tail(table), word)

\* The captures of the regex \s*(\S+)\s*(.*) in inp, as code point indexes:
\* the word is [ws, we), the arguments are [as, ae).  `.` does not match "\n".
Captures(inp) ==
    LET NonWs == {i \in 1..Len(inp) : ~is_whitespace(inp[i])}
        first == CHOOSE i \in NonWs : \A j \in NonWs : i <= j
        WordEnds == {j \in first..Len(inp) : j = Len(inp) \/ is_whitespace(inp[j + 1])}
        wend == CHOOSE j \in WordEnds : \A k \in WordEnds : j <= k
        ArgStarts == {j \in wend..Len(inp) : j = Len(inp) \/ ~is_whitespace(inp[j + 1])}
        astart == CHOOSE j \in ArgStarts : \A k \in ArgStarts : j <= k
        ArgEnds == {j \in astart..Len(inp) : j = Len(inp) \/ inp[j + 1] = "\n"}
        aend == CHOOSE j \in ArgEnds : \A k \in ArgEnds : j <= k
    IN IF NonWs = {} THEN [matched |-> FALSE]
       ELSE [matched |-> TRUE, ws |-> first - 1, we |-> wend, as |-> astart, ae |-> aend]

\* CommandsTable::parse that hands the parser the cursor of the whole line
args_pos_of_line(at, start, end) == IF at >= start /\ at <= end THEN Some(at) ELSE None

\* CommandsTable::parse, the cursor the parser of the command is given:
\* relative to the start of the arguments, None outside of them
args_pos(at, start, end) == IF at >= start /\ at <= end THEN Some(at - start) ELSE None

\* CommandsTable::parse; `at` is the cursor, a code point index, which the
\* code compares with and subtracts from the byte offsets of the captures
CommandsTable_parse(table, inp, at) ==
    LET caps == Captures(inp)
        word == SubSeq(inp, caps.ws + 1, caps.we)
        args == SubSeq(inp, caps.as + 1, caps.ae)
        Exact == {i \in 1..Len(table) : table[i].keyword = word}
        found == CHOOSE i \in Exact : \A j \in Exact : i <= j
        matching == Matching(table, word)
        args_start == ByteOff(inp, caps.as)
        args_end == ByteOff(inp, caps.ae)
        word_start == ByteOff(inp, caps.ws)
        word_end == ByteOff(inp, caps.we)
    IN IF ~caps.matched THEN empty_input(table)
       ELSE IF Exact # {}
            THEN parse_args(table, table[found], args,
                            args_pos(at, args_start, args_end), args_end)
       ELSE IF matching # <<>>
            THEN IF at < word_start \/ word_end < at THEN prefix_command_no_hints
                 ELSE IF ~SliceOk(word, 0, at - word_start) THEN ParsePanic
                 ELSE prefix_command(ByteSlice(word, 0, at - word_start), matching)
       ELSE no_match

(***************************************************************************)
(* Command tables of the model.                                            *)
(***************************************************************************)
UserCommand(keyword, parser) ==
    [keyword |-> keyword,
     short_usage |-> "Runs " \o StrOf(keyword) \o ".",
     long_usage |-> <<StrOf(keyword), "", "    Runs " \o StrOf(keyword) \o ".">>,
     parser |-> parser]

east == <<"e", "a", "s", "t">>
west == <<"w", "e", "s", "t">>
reset == <<"r", "e", "s", "e", "t">>

\* {east <0-63>, west <0-63>, reset, help}: the arguments are u8 in 0..63
ScenarioTable ==
    CommandsTable_new(<<UserCommand(east, command_1arg(prim_int_for_range(0, 255, 0, 63, None), "east")),
                        UserCommand(west, command_1arg(prim_int_for_range(0, 255, 0, 63, None), "west")),
                        UserCommand(reset, command_no_args("reset"))>>)

(***************************************************************************)
(* Input.  An operation maps the record of the fields (with the terminal   *)
(* the executors write to, and the fault flag) to the record afterwards.   *)
(***************************************************************************)
RECURSIVE Spaces(_)
Spaces(n) == IF n <= 0 THEN "" ELSE " " \o Spaces(n - 1)

RECURSIVE MaxKeywordLen(_)
MaxKeywordLen(table) ==
    IF table = <<>> THEN 0 ELSE Max(ByteLen(Head(table).keyword), MaxKeywordLen(Tail(table)))

\* help::all_commands_usage
all_commands_usage(table) ==
    [i \in 1..Len(table) |->
        "  " \o StrOf(table[i].keyword)
             \o Spaces(MaxKeywordLen(table) - Len(table[i].keyword))
             \o "    " \o table[i].short_usage]

\* CommandsTable::default_usage
default_usage(table) ==
    "Chip Debugging Tool\n\nFunction key shortcuts are along the bottom of the screen.\n\nCommands:\n"
    \o join(all_commands_usage(table), "\n")

\* Input::new
Input_new(table) ==
    [commands |-> table, input |-> <<>>, pos |-> 0, inline_hint |-> None,
     completion |-> None, end_of_line_hint |-> None, suggestions |-> <<>>,
     usage |-> Some(default_usage(table)), command |-> None, history |-> History_new,
     terminal |-> <<>>, fault |-> FALSE, invoked |-> <<>>]

\* Input::update, the assignments of the fields of the ParseRes r
update_fields(self, r) ==
    IF r.panic THEN [self EXCEPT !.fault = TRUE]
    ELSE [self EXCEPT !.inline_hint = r.inline_hint, !.completion = r.completion,
                      !.end_of_line_hint = r.end_of_line_hint,
                      !.suggestions = r.suggestions, !.usage = r.usage,
                      !.command = r.command]

\* Input::update
update(self) == update_fields(self, CommandsTable_parse(self.commands, self.input, self.pos))

\* String::insert_str at a byte offset that is a boundary
insert_str(s, byte_pos, text) ==
    LET i == CharIdx(s, byte_pos) IN Take(s, i) \o text \o Drop(s, i)

\* String::remove of the code point that starts at a byte offset
remove(s, byte_pos) ==
    LET i == CharIdx(s, byte_pos) IN Take(s, i) \o Drop(s, i + 1)

\* Input::cursor_left that does not recompute the advisories
cursor_left_no_update(self) ==
    IF self.pos = 0 THEN self ELSE [self EXCEPT !.pos = self.pos - 1]

\* Input::cursor_left
cursor_left(self) ==
    IF self.pos = 0 THEN self ELSE update([self EXCEPT !.pos = self.pos - 1])

\* Input::cursor_right
cursor_right(self) ==
    IF self.pos >= Len(self.input) THEN self ELSE update([self EXCEPT !.pos = self.pos + 1])

\* Input::cursor_end
cursor_end(self) ==
    IF self.pos >= Len(self.input) THEN self ELSE update([self EXCEPT !.pos = Len(self.input)])

\* Input::cursor_start
cursor_start(self) ==
    IF self.pos = 0 THEN self ELSE update([self EXCEPT !.pos = 0])

\* Input::insert_char
insert_char(self, c) ==
    LET byte_pos == str_byte_pos(self.input, self.pos)
    IN update([self EXCEPT !.input = insert_str(self.input, byte_pos, <<c>>),
                           !.pos = self.pos + 1])

\* the arm for Key::Char(c) of Input::input without its guard
input_key_char_unguarded(self, c) == insert_char(self, c)

\* Input::input of icp-termion, the arm for Key::Char(c): insert_char if c is
\* not a control code point, else the arm `_ => ()`
input_key_char(self, c) == IF ~is_control(c) THEN insert_char(self, c) ELSE self

\* Input::erase_char without the check of the cursor against the length
erase_char_unchecked(self) ==
    update([self EXCEPT !.input = Take(self.input, self.pos) \o Drop(self.input, self.pos + 1)])

\* Input::erase_char
erase_char(self) ==
    LET byte_pos == str_byte_pos(self.input, self.pos)
    IN IF self.pos >= Len(self.input) THEN self
       ELSE update([self EXCEPT !.input = remove(self.input, byte_pos)])

\* Input::backward_erase_char that leaves the cursor where it is
backward_erase_char_keep_pos(self) ==
    LET byte_pos == str_byte_pos(self.input, self.pos)
        before == ByteSlice(self.input, 0, byte_pos)
        prev_char_byte_pos == byte_pos - len_utf8(before[Len(before)])
    IN IF self.input = <<>> THEN self
       ELSE IF before = <<>> THEN self
       ELSE update([self EXCEPT !.input = remove(self.input, prev_char_byte_pos)])

\* Input::backward_erase_char
backward_erase_char(self) ==
    LET byte_pos == str_byte_pos(self.input, self.pos)
        before == ByteSlice(self.input, 0, byte_pos)
        prev_char_byte_pos == byte_pos - len_utf8(before[Len(before)])
    IN IF self.input = <<>> THEN self
       ELSE IF before = <<>> THEN self
       ELSE update([self EXCEPT !.input = remove(self.input, prev_char_byte_pos),
                                !.pos = self.pos - 1])

\* Input::backward_erase_line
backward_erase_line(self) ==
    LET byte_pos == str_byte_pos(self.input, self.pos)
    IN IF byte_pos = 0 THEN self
       ELSE update([self EXCEPT !.input = Drop(self.input, CharIdx(self.input, byte_pos)),
                                !.pos = 0])

\* Input::history_prev
history_prev(self) ==
    LET at_eol == self.pos >= ByteLen(self.input)
        r == History_prev(self.history, self.input)
    IN update([self EXCEPT !.input = r.ret, !.history = r.h,
                           !.pos = IF at_eol THEN ByteLen(r.ret) ELSE self.pos])

\* Input::history_next
history_next(self) ==
    LET at_eol == self.pos >= ByteLen(self.input)
        r == History_next(self.history, self.input)
    IN update([self EXCEPT !.input = r.ret, !.history = r.h,
                           !.pos = IF at_eol THEN ByteLen(r.ret) ELSE self.pos])

\* Input::complete
complete(self) ==
    IF ~self.completion.some THEN self
    ELSE LET text == self.completion.v
             byte_pos == str_byte_pos(self.input, self.pos)
         IN update([self EXCEPT !.input = insert_str(self.input, byte_pos, text),
                                !.pos = self.pos + ByteLen(text)])

\* the command whose keyword is k
CommandFor(table, k) ==
    LET Found == {i \in 1..Len(table) : table[i].keyword = k}
    IN table[CHOOSE i \in Found : \A j \in Found : i <= j]

\* The call of an executor: Inner::help_for_all and Inner::help_for extend
\* the terminal; the executor of a user command pushes its own line.
run_executor(self, exec) ==
    IF exec.cmd = "help_for_all"
    THEN [self EXCEPT !.terminal = self.terminal \o all_commands_usage(self.commands)]
    ELSE IF exec.cmd = "help_for"
    THEN IF \E i \in 1..Len(self.commands) : self.commands[i].keyword = exec.args[1]
         THEN [self EXCEPT !.terminal =
                   self.terminal \o CommandFor(self.commands, exec.args[1]).long_usage]
         ELSE [self EXCEPT !.fault = TRUE]
    ELSE [self EXCEPT !.terminal = Append(self.terminal, exec.cmd)]

\* Input::execute
\* the Input as the executor `taken` finds it when it is called: the call is
\* on record with the input, the newest history entry and the bound command
\* of that moment
entered(self, taken) ==
    [self EXCEPT !.invoked = Append(self.invoked,
                                    [exec |-> taken, input |-> self.input,
                                     newest |-> Take(self.history.entries, 1),
                                     browsing |-> self.history.current # 0,
                                     bound |-> self.command.some])]

execute_run(cleared, taken) ==
    IF cleared.fault THEN cleared ELSE run_executor(entered(cleared, taken), taken)

\* Input::execute that calls the command before it clears the input
execute_calls_first(self) ==
    IF ~self.command.some THEN self
    ELSE update([run_executor(entered(self, self.command.v), self.command.v)
                    EXCEPT !.command = None,
                           !.history = History_append(self.history, self.input),
                           !.input = <<>>, !.pos = 0])

execute(self) ==
    IF ~self.command.some THEN self
    ELSE execute_run(update([self EXCEPT !.command = None,
                                         !.history = History_append(self.history, self.input),
                                         !.input = <<>>, !.pos = 0]),
                     self.command.v)

ab == <<"a", "b">>
ac == <<"a", "c">>

\* {ab, ac, b <0-3>, help}: two keywords that share one code point
PairTable ==
    CommandsTable_new(<<UserCommand(ab, command_no_args("ab")),
                        UserCommand(ac, command_no_args("ac")),
                        UserCommand(<<"b">>, command_1arg(prim_int_for_range(0, 255, 0, 3, None), "b"))>>)

\* {aa, help}
EditTable == CommandsTable_new(<<UserCommand(<<"a", "a">>, command_no_args("aa"))>>)

(***************************************************************************)
(* Ownership.  The table is an Rc of the list of commands, the Inner of    *)
(* Help an Rc<RefCell<Inner>>, the terminal sink an Rc<RefCell<Vec>>.  A   *)
(* record of owners holds the strong counts `table`, `inner` and `sink`,   *)
(* the state of the Inner value, and what the caller holds: `tables`       *)
(* CommandsTable handles, at most one Input (`input`), `execs` help        *)
(* executors taken from a ParseRes, `sinks` handles of the sink; `calls`   *)
(* is the record of the calls of help executors.                           *)
(***************************************************************************)
\* the caller holds the sink and nothing else exists yet
Owners_start ==
    [tables |-> 0, input |-> FALSE, execs |-> 0, sinks |-> 1,
     table |-> 0, inner |-> 0, sink |-> 1, state |-> "Absent", calls |-> <<>>]

\* a strong reference to the Inner is dropped; the last one drops the Inner
\* value, and with an Initialized value its parser, whose closures for_all
\* and specific each own a clone of the terminal
Rc_drop_inner(h) ==
    IF h.inner > 1 THEN [h EXCEPT !.inner = @ - 1]
    ELSE [h EXCEPT !.inner = 0, !.state = "Dropped",
                   !.sink = IF h.state = "Initialized" THEN @ - 2 ELSE @]

\* a strong reference to the table is dropped; the last one drops the list
\* of commands and with it the Help command, which owns a clone of inner
Rc_drop_table(h) ==
    IF h.table > 1 THEN [h EXCEPT !.table = @ - 1]
    ELSE Rc_drop_inner([h EXCEPT !.table = 0])

\* Help::new: Rc::new for inner, a clone for Help; the other reference and
\* the terminal move into the closure set_commands returns
Help_new_owners(h) == [h EXCEPT !.inner = 2, !.state = "Uninitialized"]

\* the call of the closure set_commands returned, with a clone of the table:
\* for_all and specific each take a clone of inner and of terminal, the
\* parser made of them is stored in the Inner with table.downgrade(), and the
\* clone of the table is dropped when the call returns
Help_set_commands_owners(h) ==
    Rc_drop_table([h EXCEPT !.table = @ + 1, !.inner = @ + 2, !.sink = @ + 2,
                            !.state = "Initialized"])

\* the closure set_commands returned is dropped: its inner and its terminal
Help_initializer_drop(h) == Rc_drop_inner([h EXCEPT !.sink = @ - 1])

\* CommandsTable::new, called with a clone of the sink
CommandsTable_new_owners(h) ==
    LET passed == [h EXCEPT !.sink = @ + 1]
        collected == [Help_new_owners(passed) EXCEPT !.table = 1]
    IN [Help_initializer_drop(Help_set_commands_owners(collected)) EXCEPT !.tables = 1]

\* Input::new: the CommandsTable moves from the caller into Input::commands
Input_new_owners(h) == [h EXCEPT !.tables = @ - 1, !.input = TRUE]

\* an executor made by the parser of Help: it owns a clone of inner and of
\* the terminal
IsHelpExec(c) == c.some /\ c.v.cmd \in {"help_for_all", "help_for"}
Exec_new_owners(h) == [h EXCEPT !.inner = @ + 1, !.sink = @ + 1]
Exec_drop(h) == Rc_drop_inner([h EXCEPT !.sink = @ - 1])

\* Input::command is assigned: the executor it held is dropped
Command_assigned(h, old, new) ==
    LET made == IF IsHelpExec(new) THEN Exec_new_owners(h) ELSE h
    IN IF IsHelpExec(old) THEN Exec_drop(made) ELSE made

\* Inner::for_commands with a reference to the table that always upgrades
Inner_for_commands_owning(h) == h.state = "Initialized"

\* Inner::for_commands, commands.upgrade(): Some while a strong reference
\* to the table exists
Inner_for_commands(h) == h.state = "Initialized" /\ h.table > 0

\* the owners of the model's Input: a table built with the sink, moved into
\* the Input
Owners_of_input == Input_new_owners(CommandsTable_new_owners(Owners_start))

(***************************************************************************)
(* The state as the record the operations work on.                         *)
(***************************************************************************)
Self ==
    [commands |-> commands, input |-> input, pos |-> pos, inline_hint |-> inline_hint,
     completion |-> completion, end_of_line_hint |-> end_of_line_hint,
     suggestions |-> suggestions, usage |-> usage, command |-> command,
     history |-> history, terminal |-> terminal, fault |-> fault, invoked |-> invoked]

Becomes(s) ==
    /\ commands' = s.commands
    /\ input' = s.input
    /\ pos' = s.pos
    /\ inline_hint' = s.inline_hint
    /\ completion' = s.completion
    /\ end_of_line_hint' = s.end_of_line_hint
    /\ suggestions' = s.suggestions
    /\ usage' = s.usage
    /\ command' = s.command
    /\ history' = s.history
    /\ terminal' = s.terminal
    /\ fault' = s.fault
    /\ invoked' = s.invoked

Starts(s) ==
    /\ commands = s.commands
    /\ input = s.input
    /\ pos = s.pos
    /\ inline_hint = s.inline_hint
    /\ completion = s.completion
    /\ end_of_line_hint = s.end_of_line_hint
    /\ suggestions = s.suggestions
    /\ usage = s.usage
    /\ command = s.command
    /\ history = s.history
    /\ terminal = s.terminal
    /\ fault = s.fault
    /\ invoked = s.invoked

\* the advisory bundle of a record of fields, and of a ParseRes
Bundle(s) ==
    [inline_hint |-> s.inline_hint, completion |-> s.completion,
     end_of_line_hint |-> s.end_of_line_hint, suggestions |-> s.suggestions,
     usage |-> s.usage, command |-> s.command]

(***************************************************************************)
(* The edit machine: an Input driven by its edit operations.               *)
(***************************************************************************)
EditTables == {EditTable}
KeyChars == {"a", " ", "U+0085"}

Init ==
    /\ \E table \in EditTables : Starts(Input_new(table))
    /\ heap = Owners_of_input
    /\ acc = ArgFailed(0, <<>>)
    /\ appended = <<>>
    /\ streak = 0
    /\ called = FALSE

\* the count of consecutive History::prev calls that started while not browsing
StreakAfterPrev(h) ==
    IF h.entries = <<>> THEN 0
    ELSE IF h.current = 0 THEN 1
    ELSE IF streak = 0 THEN 0
    ELSE Min(streak + 1, MaxStreak)

Edits(s) ==
    /\ Becomes(s)
    /\ appended' = appended
    /\ streak' = 0
    /\ called' = TRUE
    /\ heap' = Command_assigned(heap, command, s.command)
    /\ acc' = acc

CursorLeft == ~fault /\ Edits(cursor_left(Self))
CursorRight == ~fault /\ Edits(cursor_right(Self))
CursorStart == ~fault /\ Edits(cursor_start(Self))
CursorEnd == ~fault /\ Edits(cursor_end(Self))
InsertChar == ~fault /\ Len(input) < MaxLen /\ \E c \in KeyChars : Edits(input_key_char(Self, c))
EraseChar == ~fault /\ Edits(erase_char(Self))
BackwardEraseChar == ~fault /\ Edits(backward_erase_char(Self))
BackwardEraseLine == ~fault /\ Edits(backward_erase_line(Self))
HistoryPrev ==
    /\ ~fault
    /\ Becomes(history_prev(Self))
    /\ appended' = appended
    /\ streak' = StreakAfterPrev(history)
    /\ called' = TRUE
    /\ heap' = Command_assigned(heap, command, command')
    /\ acc' = acc
HistoryNext == ~fault /\ Edits(history_next(Self))
Complete == ~fault /\ Len(input) < MaxLen /\ Edits(complete(Self))
Execute ==
    /\ ~fault
    /\ Len(appended) < MaxExec
    /\ Becomes(execute(Self))
    /\ appended' = IF command.some THEN <<input>> \o appended ELSE appended
    /\ streak' = 0
    /\ called' = TRUE
    /\ heap' = Command_assigned(heap, command, command')
    /\ acc' = acc

Next ==
    \/ CursorLeft \/ CursorRight \/ CursorStart \/ CursorEnd
    \/ InsertChar \/ EraseChar \/ BackwardEraseChar \/ BackwardEraseLine
    \/ HistoryPrev \/ HistoryNext \/ Complete \/ Execute

Spec == Init /\ [][Next]_vars

(***************************************************************************)
(* The history machine: a History called with any texts.  `input` holds    *)
(* the text the last call returned.                                        *)
(***************************************************************************)
HistTexts == {<<>>, <<"a">>, <<"b">>}

HistInit == Init

HistPrev ==
    \E cur \in HistTexts :
        LET r == History_prev(history, cur)
        IN /\ history' = r.h
           /\ input' = r.ret
           /\ streak' = StreakAfterPrev(history)
           /\ called' = TRUE
           /\ UNCHANGED <<commands, pos, inline_hint, completion, end_of_line_hint,
                          suggestions, usage, command, terminal, fault, invoked, heap, acc,
                          appended>>

HistNext ==
    \E cur \in HistTexts :
        LET r == History_next(history, cur)
        IN /\ history' = r.h
           /\ input' = r.ret
           /\ streak' = 0
           /\ called' = TRUE
           /\ UNCHANGED <<commands, pos, inline_hint, completion, end_of_line_hint,
                          suggestions, usage, command, terminal, fault, invoked, heap, acc,
                          appended>>

HistAppend ==
    /\ Len(appended) < MaxAppend
    /\ \E text \in HistTexts :
        /\ history' = History_append(history, text)
        /\ appended' = <<text>> \o appended
    /\ streak' = 0
    /\ called' = TRUE
    /\ UNCHANGED <<commands, input, pos, inline_hint, completion, end_of_line_hint,
                   suggestions, usage, command, terminal, fault, invoked, heap, acc>>

HistNextStep == HistPrev \/ HistNext \/ HistAppend

HistorySpec == HistInit /\ [][HistNextStep]_vars

(***************************************************************************)
(* The parse machine: CommandsTable::parse applied, by Input::update, to   *)
(* any table, input and cursor of the sets below.                          *)
(***************************************************************************)
\* {ae-acute, help}: a keyword with a code point of two bytes
AccentTable == CommandsTable_new(<<UserCommand(<<"a", "U+00E9">>, command_no_args("ae"))>>)

\* {a, ab <0-9>, help}: a keyword that is a strict prefix of another one
NestedTable ==
    CommandsTable_new(<<UserCommand(<<"a">>, command_no_args("a")),
                        UserCommand(ab, command_1arg(prim_int_for_range(0, 255, 0, 9, None), "ab"))>>)

\* {e-acuteab, baa, bab, help}: a keyword that starts with a code point of
\* two bytes, and two keywords whose common prefix is no keyword
LeadTable ==
    CommandsTable_new(<<UserCommand(<<"U+00E9", "a", "b">>, command_no_args("eab")),
                        UserCommand(<<"b", "a", "a">>, command_no_args("baa")),
                        UserCommand(<<"b", "a", "b">>, command_no_args("bab"))>>)

\* {b (<side> 0-9 | ba | <other>), help}: one command of three alternatives,
\* the parser of tests::simple_alternatives_parser with a third alternative
\* that parses what the second one parses
AltTable ==
    CommandsTable_new(<<UserCommand(<<"b">>, alternatives_cmd(
        <<command_2args(keyword_set_with_hint(<<ab, <<"a", "a">>>>, <<"<side>">>),
                        prim_int_for_range(0, 255, 0, 9, None), "side"),
          command_1arg(keyword_set(<<<<"b", "a">>>>), "reset"),
          command_1arg(keyword_set_with_hint(<<<<"b", "a">>, <<"b", "b">>>>, <<"<other>">>),
                       "other")>>))>>)

\* {b <height: 10-100>, help}: the parser of tests::u64_with_range_and_hint
\* over an unsigned type of 8 bits
RangeTable ==
    CommandsTable_new(<<UserCommand(<<"b">>, command_1arg(
        prim_int_for_range(0, 255, 10, 100, Some("height")), "height"))>>)

ParseTables ==
    {ScenarioTable, PairTable, AccentTable, NestedTable, LeadTable, AltTable, RangeTable}
ParseChars == {"a", "b", " ", "9", "U+00A0"}

StringsUpTo(chars, n) == UNION {[1..k -> chars] : k \in 0..n}

ScenarioInputs ==
    {<<"e">>,
     <<"U+00E9">>,
     <<"U+00E9", "a">>,
     <<"e", "a", "s", "t", " ", "7">>,
     <<"e", "a", "s", "t", " ", "9", "9">>,
     <<"e", "a", "s", "t", " ", "7", " ", "x">>,
     <<"b", " ", "a", "b", " ", "9">>,
     <<"b", " ", "1", "9", "9">>,
     <<"b", " ", "2", "5", "6">>,
     <<"b", " ", "9", "9", "9">>,
     <<"b", " ", "-", "1">>,
     <<"b", " ", "-", "0">>,
     <<"h", "e", "l", "p", " ", "e", "a", "s", "t">>}

\* `help k` for every keyword k of the tables
KeywordSet(table) == {table[i].keyword : i \in 1..Len(table)}
HelpLine(k) == help_keyword \o <<" ">> \o k
HelpInputs == {HelpLine(k) : k \in UNION {KeywordSet(table) : table \in ParseTables}}

ParseInputs == StringsUpTo(ParseChars, ParseLen) \cup ScenarioInputs \cup HelpInputs

ParseInit ==
    /\ \E table \in ParseTables, inp \in ParseInputs :
          \E at \in 0..(Len(inp) + 1) :
              Starts([Input_new(table) EXCEPT !.input = inp, !.pos = at])
    /\ heap = Owners_of_input
    /\ acc = ArgFailed(0, <<>>)
    /\ appended = <<>>
    /\ streak = 0
    /\ called = FALSE

Update ==
    /\ ~called
    /\ Becomes(update(Self))
    /\ called' = TRUE
    /\ heap' = Command_assigned(heap, command, command')
    /\ UNCHANGED <<acc, appended, streak>>

\* Input::complete and Input::execute on the parsed input
ParseComplete ==
    /\ called /\ ~fault /\ completion.some
    /\ Becomes(complete(Self))
    /\ heap' = Command_assigned(heap, command, command')
    /\ UNCHANGED <<acc, appended, streak, called>>

ParseExecute ==
    /\ called /\ ~fault /\ command.some
    /\ Becomes(execute(Self))
    /\ heap' = Command_assigned(heap, command, command')
    /\ UNCHANGED <<acc, appended, streak, called>>

ParseNext == Update \/ ParseComplete \/ ParseExecute

ParseSpec == ParseInit /\ [][ParseNext]_vars

(***************************************************************************)
(* The owners machine: a caller builds a table with CommandsTable::new,    *)
(* clones and drops it, moves it into an Input, types `help`, executes,    *)
(* parses `help` with CommandsTable::parse and keeps the executor, calls   *)
(* or drops that executor, and drops the sink.                             *)
(***************************************************************************)
LifeUserLists ==
    {<<UserCommand(ab, command_no_args("ab"))>>,
     <<UserCommand(ab, command_no_args("ab")), UserCommand(ab, command_no_args("second ab"))>>,
     <<UserCommand(help_keyword, command_no_args("user help"))>>}

LifeInit ==
    /\ \E list \in LifeUserLists : Starts(Input_new(CommandsTable_new(list)))
    /\ heap = CommandsTable_new_owners(Owners_start)
    /\ acc = ArgFailed(0, <<>>)
    /\ appended = <<>>
    /\ streak = 0
    /\ called = FALSE

\* the Input built by Input::new, writing to the same terminal
FreshInput == [Input_new(commands) EXCEPT !.terminal = terminal, !.invoked = invoked]

\* the call of a help executor on record: who called, the strong count of
\* the table it found, whether it panicked and the lines it printed
HelpCall(via, found, after) ==
    [via |-> via, holders |-> found.table, faulted |-> after.fault,
     printed |-> Len(after.terminal) - Len(terminal)]

Owns(h) == heap' = h /\ UNCHANGED <<acc, appended, streak>> /\ called' = TRUE

\* CommandsTable::clone
LifeCloneTable ==
    /\ ~fault /\ heap.tables >= 1 /\ heap.tables < MaxHandles
    /\ Becomes(Self)
    /\ Owns([heap EXCEPT !.tables = @ + 1, !.table = @ + 1])

\* a CommandsTable the caller holds is dropped
LifeDropTable ==
    /\ ~fault /\ heap.tables >= 1
    /\ Becomes(Self)
    /\ Owns(Rc_drop_table([heap EXCEPT !.tables = @ - 1]))

\* Input::new
LifeNewInput ==
    /\ ~fault /\ heap.tables >= 1 /\ ~heap.input
    /\ Becomes(FreshInput)
    /\ Owns(Input_new_owners(heap))

\* Input::insert_char, for the next code point of `help`
LifeInsert ==
    /\ ~fault /\ heap.input /\ pos = Len(input) /\ Len(input) < Len(help_keyword)
    /\ input = SubSeq(help_keyword, 1, Len(input))
    /\ Becomes(insert_char(Self, help_keyword[Len(input) + 1]))
    /\ Owns(Command_assigned(heap, command, command'))

\* Input::execute; the executor of Help goes through Inner::for_commands
LifeExecute ==
    /\ ~fault /\ heap.input /\ command.some
    /\ Len(heap.calls) < MaxInvoke /\ Len(invoked) < MaxInvoke
    /\ LET done == execute(Self)
           after == IF IsHelpExec(command) /\ ~Inner_for_commands(heap)
                    THEN [done EXCEPT !.fault = TRUE, !.terminal = terminal]
                    ELSE done
           dropped == Command_assigned(heap, command, after.command)
       IN /\ Becomes(after)
          /\ Owns(IF IsHelpExec(command)
                  THEN [dropped EXCEPT !.calls = Append(@, HelpCall("Input::execute", heap, after))]
                  ELSE dropped)

\* the Input is dropped: its bound executor and its CommandsTable
LifeDropInput ==
    /\ ~fault /\ heap.input
    /\ Becomes(FreshInput)
    /\ Owns(Rc_drop_table([Command_assigned(heap, command, None) EXCEPT !.input = FALSE]))

\* CommandsTable::parse("help", 4) by the caller, who keeps ParseRes::command
LifeParse ==
    /\ ~fault /\ heap.tables >= 1 /\ heap.execs < MaxHeld
    /\ IsHelpExec(CommandsTable_parse(commands, help_keyword, 4).command)
    /\ Becomes(Self)
    /\ Owns([Exec_new_owners(heap) EXCEPT !.execs = @ + 1])

\* the caller calls an executor it holds
LifeInvoke ==
    /\ ~fault /\ heap.execs >= 1 /\ Len(heap.calls) < MaxInvoke
    /\ LET after == IF Inner_for_commands(heap)
                    THEN run_executor(Self, CommandsTable_parse(commands, help_keyword, 4).command.v)
                    ELSE [Self EXCEPT !.fault = TRUE]
       IN /\ Becomes(after)
          /\ Owns([Exec_drop(heap) EXCEPT !.execs = @ - 1,
                                          !.calls = Append(@, HelpCall("caller", heap, after))])

\* the caller drops an executor it holds
LifeDropExec ==
    /\ ~fault /\ heap.execs >= 1
    /\ Becomes(Self)
    /\ Owns([Exec_drop(heap) EXCEPT !.execs = @ - 1])

\* the caller drops its handle of the sink
LifeDropSink ==
    /\ ~fault /\ heap.sinks >= 1
    /\ Becomes(Self)
    /\ Owns([heap EXCEPT !.sinks = @ - 1, !.sink = @ - 1])

LifeNext ==
    \/ LifeCloneTable \/ LifeDropTable \/ LifeNewInput \/ LifeInsert \/ LifeExecute
    \/ LifeDropInput \/ LifeParse \/ LifeInvoke \/ LifeDropExec \/ LifeDropSink

LifeSpec == LifeInit /\ [][LifeNext]_vars

(***************************************************************************)
(* The merge machine: ArgParseRes::merge applied, on either side, to the   *)
(* result so far and any result of the set below.                          *)
(***************************************************************************)
MergeReasons == {"x", "y"}
MergeValues == {"p", "q"}

MergeOperands ==
    {ArgParsed(v) : v \in MergeValues}
    \cup {ArgFailed(n, reason) : n \in 0..MaxUpTo, reason \in StringsUpTo(MergeReasons, 1)}

MergeInit ==
    /\ \E table \in EditTables : Starts(Input_new(table))
    /\ heap = Owners_of_input
    /\ acc \in MergeOperands
    /\ appended = <<>>
    /\ streak = 0
    /\ called = FALSE

Merges(res) ==
    /\ acc' = res
    /\ called' = TRUE
    /\ Becomes(Self)
    /\ UNCHANGED <<heap, appended, streak>>

\* acc.merge(other)
MergeOther ==
    /\ IF acc.parsed THEN TRUE ELSE Len(acc.reason) < MaxReasons
    /\ \E other \in MergeOperands : Merges(ArgParseRes_merge(acc, other))

\* other.merge(acc)
MergeInto ==
    /\ IF acc.parsed THEN TRUE ELSE Len(acc.reason) < MaxReasons
    /\ \E other \in MergeOperands : Merges(ArgParseRes_merge(other, acc))

MergeNext == MergeOther \/ MergeInto

MergeSpec == MergeInit /\ [][MergeNext]_vars

(***************************************************************************)
(* The file-path argument parser over a file system.  A node of the file   *)
(* system is the list of the names on the way to it from the root; a name  *)
(* and a path typed by the user are lists of code points, all of one byte. *)
(***************************************************************************)
FileLen == 4       \* longest input of the file-path machine

FileChars == {"d", "f", "/", "."}

\* / holds the directory w, the base of the parser; w holds the directory
\* d and the files f and ff; d holds the file f and the directory d, which
\* cannot be read
FsBase == <<"/", "w">>
FsDirs == {<<>>, <<<<"w">>>>, <<<<"w">>, <<"d">>>>, <<<<"w">>, <<"d">>, <<"d">>>>}
FsFiles == {<<<<"w">>, <<"f">>>>, <<<<"w">>, <<"f", "f">>>>, <<<<"w">>, <<"d">>, <<"f">>>>}
FsUnreadable == {<<<<"w">>, <<"d">>, <<"d">>>>}
FsNames == {<<"w">>, <<"d">>, <<"f">>, <<"f", "f">>}

ENOENT == "No such file or directory (os error 2)"
ENOTDIR == "Not a directory (os error 20)"

\* the runs between the '/' of s, the empty ones included
RECURSIVE Segments(_, _)
Segments(s, run) ==
    IF s = <<>> THEN <<run>>
    ELSE IF Head(s) = "/" THEN <<run>> \o Segments(Tail(s), <<>>)
    ELSE Segments(Tail(s), Append(run, Head(s)))

\* PathBuf::push
Path_push(base, s) ==
    IF s # <<>> /\ s[1] = "/" THEN s
    ELSE IF base[Len(base)] = "/" THEN base \o s
    ELSE base \o <<"/">> \o s

\* Path::components of an absolute path: `.` and empty runs are dropped
Path_components(path) ==
    SelectSeq(Segments(path, <<>>), LAMBDA seg : seg # <<>> /\ seg # <<".">>)

RECURSIVE Path_join(_)
Path_join(comps) ==
    IF comps = <<>> THEN <<>> ELSE <<"/">> \o Head(comps) \o Path_join(Tail(comps))

\* Path::parent of an absolute path
Path_parent(path) ==
    IF Path_components(path) = <<>> THEN None
    ELSE IF Len(Path_components(path)) = 1 THEN Some(<<"/">>)
    ELSE Some(Path_join(Take(Path_components(path), Len(Path_components(path)) - 1)))

\* what the system makes of a path: the node it names, or the error
RECURSIVE Fs_walk(_, _)
Fs_walk(cur, segs) ==
    IF segs = <<>> THEN [ok |-> TRUE, node |-> cur]
    ELSE IF cur \notin FsDirs THEN [ok |-> FALSE, error |-> ENOTDIR]
    ELSE IF Head(segs) \in {<<>>, <<".">>} THEN Fs_walk(cur, Tail(segs))
    ELSE IF Head(segs) = <<".", ".">> THEN Fs_walk(Take(cur, Len(cur) - 1), Tail(segs))
    ELSE IF Append(cur, Head(segs)) \in FsDirs \cup FsFiles
         THEN Fs_walk(Append(cur, Head(segs)), Tail(segs))
    ELSE [ok |-> FALSE, error |-> ENOENT]

\* std::fs::metadata, Path::exists, Path::is_dir
metadata(path) == Fs_walk(<<>>, Segments(path, <<>>))
Path_exists(path) == metadata(path).ok
Path_is_dir(path) == metadata(path).ok /\ metadata(path).node \in FsDirs

\* the order of the strings: that of their bytes
ByteOf(c) == IF c = "." THEN 46 ELSE IF c = "/" THEN 47 ELSE IF c = "d" THEN 100 ELSE 102
RECURSIVE StrLess(_, _)
StrLess(a, b) ==
    IF b = <<>> THEN FALSE
    ELSE IF a = <<>> THEN TRUE
    ELSE IF Head(a) # Head(b) THEN ByteOf(Head(a)) < ByteOf(Head(b))
    ELSE StrLess(Tail(a), Tail(b))

\* [T]::sort_unstable of a set of distinct strings
RECURSIVE SortedSeq(_)
SortedSeq(S) ==
    IF S = {} THEN <<>>
    ELSE LET least == CHOOSE x \in S : \A y \in S \ {x} : StrLess(x, y)
         IN <<least>> \o SortedSeq(S \ {least})

\* file.rs find_matching
find_matching(dir, prefix) ==
    IF ~Path_is_dir(dir) \/ metadata(dir).node \in FsUnreadable THEN <<>>
    ELSE SortedSeq({IF Append(metadata(dir).node, name) \in FsDirs THEN name \o <<"/">> ELSE name :
                       name \in {n \in FsNames :
                                    /\ Append(metadata(dir).node, n) \in FsDirs \cup FsFiles
                                    /\ starts_with(n, prefix)}})

\* file.rs cut_last_component
cut_last_component(s) ==
    LET N == {i \in 1..Len(s) : s[i] # "/"}
        kept == IF N = {} THEN s ELSE Take(s, CHOOSE i \in N : \A j \in N : j <= i)
        S == {i \in 1..Len(kept) : kept[i] = "/"}
    IN IF S = {} THEN <<>> ELSE Take(kept, CHOOSE i \in S : \A j \in S : j <= i)

\* ParsedInput
InvalidPath(error) == [kind |-> "InvalidPath", error |-> error]
EntryPrefix(parent, prefix, parsed_up_to) ==
    [kind |-> "EntryPrefix", parent |-> parent, prefix |-> prefix,
     parsed_up_to |-> parsed_up_to]
FileEntry(file) == [kind |-> "FileEntry", file |-> file]
ExpectFailed == [kind |-> "panic"]

\* metadata(path).expect_err(..)
expect_err(path) == IF metadata(path).ok THEN ExpectFailed ELSE InvalidPath(metadata(path).error)

\* file.rs parse_input, from the match on path.parent() on
parse_input_by_parent(s, path) ==
    IF ~Path_parent(path).some THEN expect_err(path)
    ELSE IF Path_exists(Path_parent(path).v) /\ Path_is_dir(Path_parent(path).v)
         THEN EntryPrefix(Path_parent(path).v,
                          Path_components(path)[Len(Path_components(path))],
                          Len(cut_last_component(s)))
    ELSE expect_err(path)

\* file.rs parse_input
parse_input(s, base) ==
    IF Len(s) >= 2 /\ SubSeq(s, Len(s) - 1, Len(s)) = <<"/", ".">>
    THEN EntryPrefix(Path_push(base, Take(s, Len(s) - 2)), <<".">>, Len(s) - 1)
    ELSE LET show_dir_content == s = <<>> \/ s[Len(s)] = "/"
             path == Path_push(base, s)
         IN IF Path_exists(path) /\ ~Path_is_dir(path) THEN FileEntry(path)
            ELSE IF Path_exists(path) /\ show_dir_content THEN EntryPrefix(path, <<>>, Len(s))
            ELSE IF ~Path_exists(path) /\ show_dir_content THEN expect_err(path)
            ELSE parse_input_by_parent(s, path)

\* FileArgParser::parse
file_parse(base, s) ==
    LET parsed == parse_input(s, base)
    IN IF parsed.kind = "panic" THEN parsed
       ELSE IF parsed.kind = "InvalidPath" THEN ArgFailed(Len(s), <<parsed.error>>)
       ELSE IF parsed.kind = "EntryPrefix" THEN ArgFailed(parsed.parsed_up_to, <<>>)
       ELSE ArgParsed(parsed.file)

\* FileArgParser::suggestion; a suggestion is a list of code points, and the
\* message of an error is kept whole, as the one element of such a list
file_suggestion(base, s) ==
    LET parsed == parse_input(s, base)
    IN IF parsed.kind = "panic" THEN <<>>
       ELSE IF parsed.kind = "InvalidPath" THEN << <<parsed.error>> >>
       ELSE IF parsed.kind = "EntryPrefix" THEN find_matching(parsed.parent, parsed.prefix)
       ELSE find_matching(Path_parent(parsed.file).v,
                          Path_components(parsed.file)[Len(Path_components(parsed.file))])

(***************************************************************************)
(* The file-path machine: a file-path parser of base w is asked to parse   *)
(* the input and to suggest for it.                                        *)
(***************************************************************************)
FileInit ==
    /\ \E table \in EditTables, s \in StringsUpTo(FileChars, FileLen) :
          Starts([Input_new(table) EXCEPT !.input = s, !.suggestions = <<>>])
    /\ heap = Owners_of_input
    /\ acc = ArgFailed(0, <<>>)
    /\ appended = <<>>
    /\ streak = 0
    /\ called = FALSE

\* parser.parse(input)
FileParse ==
    /\ parse_input(input, FsBase) # ExpectFailed
    /\ acc' = file_parse(FsBase, input)
    /\ Becomes(Self)
    /\ UNCHANGED <<heap, appended, streak, called>>

\* parser.suggestion(input)
FileSuggestion ==
    /\ called' = TRUE
    /\ IF parse_input(input, FsBase) = ExpectFailed
       THEN Becomes([Self EXCEPT !.fault = TRUE])
       ELSE Becomes([Self EXCEPT !.suggestions = file_suggestion(FsBase, input)])
    /\ UNCHANGED <<heap, acc, appended, streak>>

FileNext == FileParse \/ FileSuggestion

FileSpec == FileInit /\ [][FileNext]_vars

(***************************************************************************)
(* Properties of History, checked under HistorySpec.                       *)
(***************************************************************************)
\* C7: after any sequence of History prev, next and append calls the scratch
\* entry is at slot 0 exactly when current # 0: the entries number the
\* appended inputs when current = 0 and one more when current # 0, and a
\* current # 0 indexes a committed entry, 1 <= current <= len - 1.
C7_ScratchIffBrowsing ==
    /\ Len(history.entries) = Len(appended) + (IF history.current # 0 THEN 1 ELSE 0)
    /\ history.current # 0 =>
          /\ 1 <= history.current
          /\ history.current <= Len(history.entries) - 1
          /\ Tail(history.entries) = appended
    /\ history.current = 0 => history.entries = appended

\* an append made while browsing, two or more inputs committed, and browsing again
C7_Witness ==
    /\ Len(appended) >= 2
    /\ history.current = 2
    /\ Len(history.entries) = Len(appended) + 1
    /\ history.entries[1] # appended[1]

\* C8: from a non-browsing History with n >= 1 committed inputs the k-th
\* consecutive prev (1 <= k <= n) returns the k-th most recently committed
\* input; every further prev returns the oldest input again and leaves current
\* at len - 1.  `streak` is k, `input` the text the last call returned.
C8_PrevWalksToOldest ==
    streak >= 1 =>
        /\ input = appended[Min(streak, Len(appended))]
        /\ streak <= Len(appended) => history.current = streak
        /\ streak >= Len(appended) => history.current = Len(history.entries) - 1

\* prev called more often than there are committed inputs, of which there are two or more
C8_Witness ==
    /\ Len(appended) >= 2
    /\ streak > Len(appended)
    /\ input = appended[Len(appended)]
    /\ appended[Len(appended)] # appended[1]

(***************************************************************************)
(* Properties of the edit operations of Input, checked under Spec.         *)
(***************************************************************************)
\* the advisories CommandsTable::parse gives for the current input and cursor
Recomputed == CommandsTable_parse(commands, input, pos)

\* no call has changed anything yet: the fields are as Input::new left them
Fresh == Self = Input_new(commands)

\* C1: after any sequence of edit operations the cursor satisfies
\* 0 <= cursor <= code_point_count(input).
C1_CursorWithinInput == ~fault => (0 <= pos /\ pos <= Len(input))

\* C2, as stated: after every call of an edit operation, from Input::new on
\* and whether or not the call changed input or cursor, the stored advisory
\* bundle equals CommandsTable::parse(input, cursor).
C2_BundleAfterEveryCall ==
    (called /\ ~fault) => Bundle(Self) = Bundle(Recomputed)

\* C2, amended: after every call the stored advisory bundle equals
\* CommandsTable::parse(input, cursor), except that while every call so far
\* was one that returns without a change, the Input still holds the bundle
\* of Input::new (no hints, no suggestions, the default usage, no command).
C2_BundleIsRecomputedOrFresh ==
    ~fault => (Bundle(Self) = Bundle(Recomputed) \/ Fresh)

\* after an execute and further edits: the cursor inside a text that parses to a command
C2_Witness ==
    /\ called /\ ~fault /\ ~Fresh
    /\ Len(appended) >= 1
    /\ command.some
    /\ 0 < pos /\ pos < Len(input)
    /\ Bundle(Self) = Bundle(Recomputed)

\* n calls of history_prev, n calls of history_next
RECURSIVE history_prev_times(_, _)
history_prev_times(self, n) ==
    IF n = 0 THEN self ELSE history_prev_times(history_prev(self), n - 1)

RECURSIVE history_next_times(_, _)
history_next_times(self, n) ==
    IF n = 0 THEN self ELSE history_next_times(history_next(self), n - 1)

there_and_back(self, n) == history_next_times(history_prev_times(self, n), n)

\* C9: from any non-browsing Input (any text, any cursor within it, any
\* committed history) n >= 1 calls of history_prev and then n calls of
\* history_next leave the input as it was, and the cursor at the end of the
\* input exactly when it was at the end before.
C9_PrevThenNextRestores ==
    (~fault /\ history.current = 0 /\ pos <= Len(input)) =>
        \A n \in 1..(Len(history.entries) + 1) :
            /\ there_and_back(Self, n).input = input
            /\ (there_and_back(Self, n).pos = Len(input)) <=> (pos = Len(input))

\* backspace right after insert(c)
insert_then_backspace(self, c) == backward_erase_char(insert_char(self, c))

\* C10, as stated: in every reachable Input state, a freshly constructed one
\* included, insert(c) followed at once by backspace restores input, cursor,
\* the whole advisory bundle and the history.
C10_InsertBackspaceRestores ==
    ~fault => \A c \in KeyChars : insert_then_backspace(Self, c) = Self

\* C10, amended: insert(c) followed at once by backspace restores input,
\* cursor, advisory bundle and history in every reachable state in which a
\* call has changed something since Input::new; in an Input still as
\* Input::new left it, input, cursor and history are restored and the bundle
\* becomes CommandsTable::parse("", 0).
C10_InsertBackspaceRestoresOrRecomputes ==
    ~fault => \A c \in KeyChars :
        insert_then_backspace(Self, c) = IF Fresh THEN update(Self) ELSE Self

\* the cursor inside a text, after an execute: the insert is in the middle
C10_Witness ==
    /\ ~fault /\ ~Fresh
    /\ Len(appended) >= 1
    /\ 0 < pos /\ pos < Len(input)
    /\ input[pos] # input[pos + 1]
    /\ \A c \in KeyChars : insert_then_backspace(Self, c) = Self

(***************************************************************************)
(* Properties of CommandsTable::parse, checked under ParseSpec: `called`   *)
(* holds once Input::update has stored the result for `input` and `pos`.   *)
(***************************************************************************)
Parsed == called /\ ~fault

\* the word of the input (first capture) and the commands it is a prefix of
TypedWord == SubSeq(input, Captures(input).ws + 1, Captures(input).we)
MatchingCommands == Matching(commands, TypedWord)

\* the keyword-prefix path of CommandsTable::parse: a word that is no keyword
\* but starts one or more, holding the cursor
OnPrefixPath ==
    /\ Captures(input).matched
    /\ \A i \in 1..Len(commands) : commands[i].keyword # TypedWord
    /\ MatchingCommands # <<>>
    /\ ByteOff(input, Captures(input).ws) <= pos
    /\ pos <= ByteOff(input, Captures(input).we)

\* P: the typed word up to the cursor; C: the common prefix of the matching
\* keywords; C[|P|..]
TypedPrefix == ByteSlice(TypedWord, 0, pos - ByteOff(input, Captures(input).ws))
CommonOfMatching == common_prefix(Keywords(MatchingCommands))
RestOfCommon == ByteSlice(CommonOfMatching, ByteLen(TypedPrefix), ByteLen(CommonOfMatching))

C4_HintAndCompletionRule ==
    (Parsed /\ OnPrefixPath) =>
        IF CommonOfMatching = <<>> \/ ByteLen(CommonOfMatching) = ByteLen(TypedPrefix)
        THEN inline_hint = None /\ completion = None
        ELSE IF Len(MatchingCommands) = 1
        THEN inline_hint = Some(RestOfCommon) /\ completion = Some(RestOfCommon \o <<" ">>)
        ELSE inline_hint = Some(RestOfCommon) /\ completion = Some(RestOfCommon)

\* the arguments of the input (second capture) start at this code point
ArgsAt == Captures(input).as

\* the tokens of the argument part of the line, with their byte ranges in the line
LineTokenRanges ==
    {[from |-> ByteOff(input, t.from), to |-> ByteOff(input, t.to)] :
        t \in {Tokens(input, ArgsAt)[i] : i \in 1..Len(Tokens(input, ArgsAt))}}

\* C5: when an argument fails to parse or an unexpected extra argument is
\* present, the Error end_of_line_hint targets the byte range of the
\* offending text in the whole input line: "east 99" targets bytes [5,7)
\* with the text "max: 63", "east 7 x" targets bytes [7,8) with the text
\* "Unexpected argument".
C5_ErrorTargetsLineBytes ==
    (Parsed /\ end_of_line_hint.some /\ end_of_line_hint.v.target.kind = "Substring") =>
        /\ end_of_line_hint.v.type_ = "Error"
        /\ [from |-> end_of_line_hint.v.target.from, to |-> end_of_line_hint.v.target.to]
              \in LineTokenRanges
        /\ (commands = ScenarioTable /\ input = east \o <<" ", "9", "9">>) =>
              /\ end_of_line_hint.v.target = Substring(5, 7)
              /\ end_of_line_hint.v.text = "max: 63"
        /\ (commands = ScenarioTable /\ input = east \o <<" ", "7", " ", "x">>) =>
              /\ end_of_line_hint.v.target = Substring(7, 8)
              /\ end_of_line_hint.v.text = "Unexpected argument"

\* C6: for every input and cursor, every end_of_line_hint whose target is
\* Substring{from, to} satisfies from <= to <= byte_len(input), and from and
\* to are code point boundaries of the input.
C6_SubstringWithinInput ==
    (Parsed /\ end_of_line_hint.some /\ end_of_line_hint.v.target.kind = "Substring") =>
        /\ end_of_line_hint.v.target.from <= end_of_line_hint.v.target.to
        /\ end_of_line_hint.v.target.to <= ByteLen(input)
        /\ is_char_boundary(input, end_of_line_hint.v.target.from)
        /\ is_char_boundary(input, end_of_line_hint.v.target.to)

(***************************************************************************)
(* Properties of Input::execute, checked under Spec.                       *)
(***************************************************************************)
\* the record of the fields after the step
SelfAfter ==
    [commands |-> commands', input |-> input', pos |-> pos', inline_hint |-> inline_hint',
     completion |-> completion', end_of_line_hint |-> end_of_line_hint',
     suggestions |-> suggestions', usage |-> usage', command |-> command',
     history |-> history', terminal |-> terminal', fault |-> fault', invoked |-> invoked']

\* the executor call the step has put on record
LastCall == invoked'[Len(invoked')]

\* C11: execute with a bound command appends the input to the history
\* (ending any browsing), clears the input, sets the cursor to 0, recomputes
\* the advisories and then invokes the executor exactly once: the executor
\* finds the input empty and the executed text as the newest history entry;
\* after execute no command is bound, so an execute right after it invokes
\* nothing.  No other operation invokes an executor.
C11_ExecuteOrder ==
    [][/\ invoked' # invoked =>
            /\ command.some
            /\ SelfAfter = execute(Self)
            /\ Len(invoked') = Len(invoked) + 1
            /\ SubSeq(invoked', 1, Len(invoked)) = invoked
            /\ LastCall.exec = command.v
            /\ LastCall.input = <<>>
            /\ LastCall.newest = <<input>>
            /\ ~LastCall.browsing
            /\ ~LastCall.bound
            /\ input' = <<>> /\ pos' = 0
            /\ history'.current = 0 /\ history'.entries[1] = input
            /\ Bundle(SelfAfter) = Bundle(CommandsTable_parse(commands, <<>>, 0))
            /\ ~command'.some
            /\ execute(SelfAfter) = SelfAfter
       /\ (command.some /\ SelfAfter = execute(Self)) => Len(invoked') = Len(invoked) + 1
      ]_vars

\* an executed "aa": its executor was called once, on an empty input, and nothing is bound
C11_Witness ==
    /\ ~fault
    /\ Len(invoked) = 1
    /\ invoked[1].exec.cmd = "aa"
    /\ invoked[1].input = <<>>
    /\ invoked[1].newest = << <<"a", "a">> >>
    /\ terminal = <<"aa">>
    /\ appended = << <<"a", "a">> >>
    /\ ~command.some

BlankInput == \A i \in 1..Len(input) : is_whitespace(input[i])

DispatchedTo == {i \in 1..Len(commands) : commands[i].keyword = TypedWord}

\* C13: the Help goes from Uninitialized to Initialized once, inside
\* CommandsTable::new and before the table is returned: the table holds one
\* Help, the last command, and it is Initialized; parse on an Uninitialized
\* Help faults, so no parse through a table CommandsTable::new returned hits
\* that fault.
C13_HelpInitialized ==
    /\ \A i \in 1..Len(commands) :
          commands[i].parser.kind = "help" <=> i = Len(commands)
    /\ commands[Len(commands)].parser.inner = "Initialized"
    /\ Command_parse(commands, Help_new, <<>>, None).panic
    /\ (called /\ fault) => DispatchedTo = {}
    /\ (called /\ Captures(input).matched /\ TypedWord = help_keyword) =>
          /\ ~Command_parse(commands, commands[Len(commands)], <<>>, None).panic
          /\ usage = Some("TODO: parse_args usage")

\* "help east" was parsed by the Help command: a help executor is bound
C13_Witness ==
    /\ called /\ ~fault
    /\ TypedWord = help_keyword
    /\ DispatchedTo = {Len(commands)}
    /\ command.some
    /\ command.v.cmd = "help_for"
    /\ command.v.args = <<east>>

\* C15: for every keyword k of the table, `help` itself included, the input
\* `help k` binds the executor help_for(k), and the call of that executor
\* appends the lines of the long_usage of k's command, in order, and nothing
\* else; the keyword a bound help_for executor holds is always a keyword of
\* the table, so help_for finds its command.
C15_HelpForKeyword ==
    /\ \A k \in KeywordSet(commands) :
          (called /\ invoked = <<>> /\ input = HelpLine(k)) =>
              /\ ~fault
              /\ command.some
              /\ command.v.cmd = "help_for"
              /\ command.v.args = <<k>>
    /\ (command.some /\ command.v.cmd = "help_for") =>
          command.v.args[1] \in KeywordSet(commands)
    /\ \A i \in 1..Len(invoked) :
          invoked[i].exec.cmd = "help_for" =>
              /\ ~fault
              /\ invoked[i].exec.args[1] \in KeywordSet(commands)
              /\ terminal = CommandFor(commands, invoked[i].exec.args[1]).long_usage

\* `help west` was executed on the scenario table: the terminal holds the
\* long usage of west
C15_Witness ==
    /\ ~fault
    /\ Len(invoked) = 1
    /\ invoked[1].newest = <<HelpLine(west)>>
    /\ invoked[1].exec.cmd = "help_for"
    /\ terminal = <<"west", "", "    Runs west.">>

\* C18: complete with a completion present inserts the completion at the
\* cursor and advances the cursor by the number of code points of the
\* inserted text; the text before and after the insertion point is kept.
C18_CompleteAdvancesByCodePoints ==
    [][(completion.some /\ pos <= Len(input) /\ ~fault /\ called
        /\ SelfAfter = complete(Self) /\ input' # input) =>
            /\ input' = Take(input, pos) \o completion.v \o Drop(input, pos)
            /\ pos' = pos + Len(completion.v)
      ]_vars

(***************************************************************************)
(* Properties of the owners, checked under LifeSpec.                       *)
(***************************************************************************)
\* the caller holds no CommandsTable, no Input and no executor
AllReleased == heap.tables = 0 /\ ~heap.input /\ heap.execs = 0

\* C14: after teardown no ownership cycle remains: once the caller holds no
\* table, no Input and no executor, the table, the Inner of Help and every
\* reference Help holds to the sink are released, so the only strong
\* references to the sink are the caller's handles.
C14_NoCycleAfterTeardown ==
    AllReleased =>
        /\ heap.table = 0
        /\ heap.inner = 0
        /\ heap.state = "Dropped"
        /\ heap.sink = heap.sinks

\* C16: a help executor that is called when no strong reference to the
\* table is left panics and prints nothing, one that finds the table prints
\* the usage lines and does not panic, and an executor called by
\* Input::execute always finds the table.
C16_HelpAfterTableDropped ==
    /\ \A i \in 1..Len(heap.calls) :
          LET c == heap.calls[i]
          IN /\ c.faulted <=> c.holders = 0
             /\ c.faulted => c.printed = 0
             /\ ~c.faulted => c.printed = Len(commands)
             /\ c.via = "Input::execute" => (c.holders >= 1 /\ ~c.faulted)
    /\ fault => (heap.calls # <<>> /\ heap.calls[Len(heap.calls)].faulted)

C16_Witness ==
    /\ Len(heap.calls) = 2
    /\ heap.calls[1].via = "Input::execute" /\ ~heap.calls[1].faulted
    /\ heap.calls[2].via = "caller" /\ heap.calls[2].faulted
    /\ AllReleased

\* C17: in every table CommandsTable::new produced the keywords are
\* pairwise distinct and exactly one of them is `help`.
C17_KeywordsDistinct ==
    /\ \A i, j \in 1..Len(commands) :
          commands[i].keyword = commands[j].keyword => i = j
    /\ Cardinality({i \in 1..Len(commands) : commands[i].keyword = help_keyword}) = 1

(***************************************************************************)
(* Properties of ArgParseRes::merge, checked under MergeSpec.              *)
(***************************************************************************)
ReasonSet(res) == {res.reason[i] : i \in 1..Len(res.reason)}

\* C20: in a merge a Parsed operand wins over a Failed one and the left
\* Parsed wins over a right Parsed; of two failures the one with the larger
\* parsed_up_to is kept, and with equal parsed_up_to the reasons are
\* concatenated, left first.  merge is associative, wherever the result so
\* far stands in the triple, and for two failures with equal parsed_up_to
\* swapping the operands gives the same parsed_up_to and the same set of
\* reasons.
C20_MergeLaws ==
    \A b \in MergeOperands :
        /\ acc.parsed => ArgParseRes_merge(acc, b) = acc
        /\ (~acc.parsed /\ b.parsed) => ArgParseRes_merge(acc, b) = b
        /\ (~acc.parsed /\ ~b.parsed) =>
              /\ acc.parsed_up_to > b.parsed_up_to => ArgParseRes_merge(acc, b) = acc
              /\ acc.parsed_up_to < b.parsed_up_to => ArgParseRes_merge(acc, b) = b
              /\ acc.parsed_up_to = b.parsed_up_to =>
                    /\ ArgParseRes_merge(acc, b) = ArgFailed(acc.parsed_up_to, acc.reason \o b.reason)
                    /\ ArgParseRes_merge(b, acc) = ArgFailed(acc.parsed_up_to, b.reason \o acc.reason)
                    /\ ArgParseRes_merge(acc, b).parsed_up_to = ArgParseRes_merge(b, acc).parsed_up_to
                    /\ ReasonSet(ArgParseRes_merge(acc, b)) = ReasonSet(ArgParseRes_merge(b, acc))
        /\ \A c \in MergeOperands :
              /\ ArgParseRes_merge(ArgParseRes_merge(acc, b), c)
                    = ArgParseRes_merge(acc, ArgParseRes_merge(b, c))
              /\ ArgParseRes_merge(ArgParseRes_merge(b, acc), c)
                    = ArgParseRes_merge(b, ArgParseRes_merge(acc, c))
              /\ ArgParseRes_merge(ArgParseRes_merge(b, c), acc)
                    = ArgParseRes_merge(b, ArgParseRes_merge(c, acc))

\* two failures at 1 were merged, "x" on the left, and a later merge with a
\* failure at 0 kept them
C20_Witness ==
    /\ called
    /\ acc = ArgFailed(1, <<"x", "y">>)
    /\ ArgParseRes_merge(acc, ArgFailed(0, <<"y">>)) = acc
    /\ ArgParseRes_merge(acc, ArgFailed(1, <<"x">>)) = ArgFailed(1, <<"x", "y", "x">>)
    /\ ArgParseRes_merge(acc, ArgParsed("p")) = ArgParsed("p")

(***************************************************************************)
(* Properties of the edit operations where they do nothing, checked under  *)
(* Spec.                                                                   *)
(***************************************************************************)
\* C21: an edit operation called where it is documented to do nothing leaves
\* every field of the Input as it is: backward_erase_char with the cursor at
\* 0 or an empty input, erase_char with the cursor at the end,
\* backward_erase_line, cursor_left and cursor_start with the cursor at 0,
\* cursor_right and cursor_end with the cursor at the end, complete without
\* a completion, execute without a bound command; and the cursor movements
\* never change the input or the history.
C21_NoOpsChangeNothing ==
    /\ (pos = 0 \/ input = <<>>) => backward_erase_char(Self) = Self
    /\ pos >= Len(input) =>
          /\ erase_char(Self) = Self
          /\ cursor_right(Self) = Self
          /\ cursor_end(Self) = Self
    /\ pos = 0 =>
          /\ backward_erase_line(Self) = Self
          /\ cursor_left(Self) = Self
          /\ cursor_start(Self) = Self
    /\ ~completion.some => complete(Self) = Self
    /\ ~command.some => execute(Self) = Self
    /\ \A moved \in {cursor_left(Self), cursor_right(Self), cursor_start(Self), cursor_end(Self)} :
          moved.input = input /\ moved.history = history

\* "a " with the cursor at the end and nothing to complete or execute: the
\* operations of the end do nothing, cursor_left does something
C21_Witness ==
    /\ called /\ ~fault
    /\ input = <<"a", " ">> /\ pos = 2
    /\ ~completion.some /\ ~command.some
    /\ erase_char(Self) = Self /\ cursor_right(Self) = Self /\ cursor_end(Self) = Self
    /\ complete(Self) = Self /\ execute(Self) = Self
    /\ cursor_left(Self).pos = 1
    /\ cursor_left(Self).input = input

(***************************************************************************)
(* Properties of the dispatch of CommandsTable::parse, checked under       *)
(* ParseSpec.                                                              *)
(***************************************************************************)
\* the first word of the input is a keyword of the table
ExactWord == Captures(input).matched /\ TypedWord \in KeywordSet(commands)

\* the byte bounds [as, ae] of the arguments and the cursor relative to them
ArgsStart == ByteOff(input, Captures(input).as)
ArgsEnd == ByteOff(input, Captures(input).ae)
InnerPos == IF ArgsStart <= pos /\ pos <= ArgsEnd THEN Some(pos - ArgsStart) ELSE None

\* the executors the parser of a command makes
ExecutorsOf(p) ==
    IF p.kind = "help" THEN {"help_for_all", "help_for"}
    ELSE IF p.kind = "alternatives" THEN {p.parsers[i].exec : i \in 1..Len(p.parsers)}
    ELSE {p.exec}

\* C22: whenever the first word of the input is a keyword, the advisory is
\* the one parse_args makes of that command's parser, run on the arguments
\* with inner_pos = pos - as when as <= pos <= ae and None otherwise, also
\* when the word is a strict prefix of other keywords; a command is bound
\* only when the first word is a keyword, and whenever a command is bound
\* inline_hint, completion and end_of_line_hint are absent.
C22_ExactKeywordDispatch ==
    Parsed =>
        /\ ExactWord =>
              Bundle(Self) =
                  Bundle(parse_args(commands, CommandFor(commands, TypedWord),
                                    SubSeq(input, Captures(input).as + 1, Captures(input).ae),
                                    InnerPos, ArgsEnd))
        /\ command.some =>
              /\ ExactWord
              /\ command.v.cmd \in ExecutorsOf(CommandFor(commands, TypedWord).parser)
              /\ inline_hint = None /\ completion = None /\ end_of_line_hint = None

\* "ab 9" with the cursor after the 9, in the table where `a` is a keyword
\* too: ab is bound with the argument 9, and the cursor, 1 past the start of
\* the arguments, makes the parser of the argument suggest nothing
C22_Witness ==
    /\ Parsed /\ commands = NestedTable
    /\ input = <<"a", "b", " ", "9">> /\ pos = 4
    /\ InnerPos = Some(1)
    /\ command.some /\ command.v.cmd = "ab"
    /\ inline_hint = None /\ completion = None /\ end_of_line_hint = None

\* the byte bounds [ws, we] of the first word
WordStart == ByteOff(input, Captures(input).ws)
WordEnd == ByteOff(input, Captures(input).we)

\* C23: when the first word is no keyword: if keywords start with the word
\* and the cursor lies in [ws, we], suggestions are exactly the keywords that
\* start with the word, in registration order, and end_of_line_hint is Info
\* "<command>" on the whole line; if keywords start with the word and the
\* cursor is outside [ws, we], there is an Info whole-line hint and no
\* suggestions, inline_hint or completion; if no keyword starts with the
\* word, there is an Error whole-line hint and no suggestions.  In all three
\* cases an advisory is made and no command is bound.
C23_NoKeywordAdvisory ==
    (called /\ invoked = <<>> /\ Captures(input).matched /\ ~ExactWord) =>
        /\ ~fault
        /\ command = None
        /\ end_of_line_hint.some
        /\ end_of_line_hint.v.target = WholeLine
        /\ IF MatchingCommands = <<>>
           THEN end_of_line_hint.v.type_ = "Error" /\ suggestions = <<>>
           ELSE IF WordStart <= pos /\ pos <= WordEnd
           THEN /\ suggestions = Keywords(MatchingCommands)
                /\ end_of_line_hint.v.type_ = "Info"
                /\ end_of_line_hint.v.text = "<command>"
           ELSE /\ end_of_line_hint.v.type_ = "Info"
                /\ suggestions = <<>>
                /\ inline_hint = None /\ completion = None

\* C30: CommandsTable::parse does not fault on an input and a cursor within
\* it: on the keyword-prefix path the slice word[0 .. pos - ws] is taken
\* within the word and on a code point boundary, and it is the part of the
\* word left of the cursor.
C30_ParseNeverFaults ==
    (called /\ invoked = <<>> /\ pos <= Len(input)) =>
        /\ ~fault
        /\ OnPrefixPath =>
              /\ SliceOk(TypedWord, 0, pos - WordStart)
              /\ TypedPrefix = SubSeq(input, Captures(input).ws + 1, pos)


(***************************************************************************)
(* C24: what the alternatives command parser returns.                      *)
(***************************************************************************)
\* the alternatives parser of the command the first word names
AlternativesOf(c) == IF c.parser.kind = "help" THEN Help_parser(commands) ELSE c.parser

\* what every alternative of p returns on the same (s, cur)
EachResult(p, s, cur) ==
    [i \in 1..Len(p.parsers) |-> command_args_parse(p.parsers[i], s, cur)]

\* the list of reasons a failure carries
ReasonsOf(f) ==
    IF f.reason.kind = "ArgumentParseFailed" THEN f.reason.reason
    ELSE IF f.reason.kind = "ExpectedArg" THEN f.reason.hint
    ELSE <<>>
WithReasons(f, l) ==
    IF f.reason.kind = "ArgumentParseFailed" THEN [f EXCEPT !.reason.reason = l]
    ELSE IF f.reason.kind = "ExpectedArg" THEN [f EXCEPT !.reason.hint = l]
    ELSE f

\* the reasons of the failures of rs[i..] at parsed_up_to m, in list order
RECURSIVE TiedReasons(_, _, _)
TiedReasons(rs, m, i) ==
    IF i > Len(rs) THEN <<>>
    ELSE (IF rs[i].res.parsed_up_to = m THEN ReasonsOf(rs[i].res) ELSE <<>>)
         \o TiedReasons(rs, m, i + 1)

\* the suggestions of the rs[i..] that returned some, in list order
RECURSIVE JoinedSuggestions(_, _)
JoinedSuggestions(rs, i) ==
    IF i > Len(rs) THEN <<>>
    ELSE (IF rs[i].suggestions.some THEN rs[i].suggestions.v ELSE <<>>)
         \o JoinedSuggestions(rs, i + 1)

FirstParsedOrFurthest(rs) ==
    LET P == {i \in 1..Len(rs) : rs[i].res.parsed}
    IN IF P # {}
       THEN rs[CHOOSE i \in P : \A j \in P : i <= j].res
       ELSE LET m == CHOOSE n \in {rs[i].res.parsed_up_to : i \in 1..Len(rs)} :
                         \A j \in 1..Len(rs) : rs[j].res.parsed_up_to <= n
                first == CHOOSE i \in 1..Len(rs) :
                             /\ rs[i].res.parsed_up_to = m
                             /\ \A j \in 1..(i - 1) : rs[j].res.parsed_up_to # m
            IN WithReasons(rs[first].res, TiedReasons(rs, m, 1))

NoneOrJoined(rs) ==
    IF \A i \in 1..Len(rs) : ~rs[i].suggestions.some THEN None
    ELSE Some(JoinedSuggestions(rs, 1))

AlternativesAsStated(p, s, cur) ==
    alternatives_parse(p, s, cur) =
        [res |-> FirstParsedOrFurthest(EachResult(p, s, cur)),
         suggestions |-> NoneOrJoined(EachResult(p, s, cur))]

ArgParsersOf(p) ==
    IF p.kind = "alternatives"
    THEN UNION {{p.parsers[i].args[j] : j \in 1..Len(p.parsers[i].args)} :
                    i \in 1..Len(p.parsers)}
    ELSE {p.args[j] : j \in 1..Len(p.args)}
KeywordSetsOf(table) ==
    {q \in UNION {ArgParsersOf(IF table[i].parser.kind = "help" THEN Help_parser(table)
                               ELSE table[i].parser) : i \in 1..Len(table)} :
        q.kind = "keyword_set"}

\* the words of the input and what a cursor in a word cuts off its start:
\* the strings a parse or a suggestion of an argument is asked about
CutWords(s, toks) ==
    UNION {{SubSeq(s, toks[i].from + 1, e) : e \in toks[i].from..toks[i].to} :
               i \in 1..Len(toks)}
Pieces(s) == CutWords(s, Tokens(s, 0))

\* the code points s and k share at their start
SharedPrefix(s, k) ==
    CHOOSE n \in 0..Min(Len(s), Len(k)) :
        /\ SubSeq(s, 1, n) = SubSeq(k, 1, n)
        /\ n < Min(Len(s), Len(k)) => s[n + 1] # k[n + 1]
StrictPrefix(p, k) == Len(p) < Len(k) /\ SubSeq(k, 1, Len(p)) = p

\* r is parse(s) and sg is suggestion(s) of the parser q with the keywords K
KeywordSetResults(q, K, s, r, sg) ==
    /\ IF s \in K THEN r = ArgParsed(s)
       ELSE /\ ~r.parsed
            /\ r.reason = q.hints
            /\ r.parsed_up_to \in {SharedPrefix(s, k) : k \in K}
            /\ \A k \in K : SharedPrefix(s, k) <= r.parsed_up_to
    /\ sg = SelectSeq(q.keywords, LAMBDA k : StrictPrefix(s, k))
    /\ \A i \in 1..Len(sg) : keyword_set_parse(q, sg[i]).parsed /\ sg[i] # s
KeywordSetAsStated(q, s) ==
    KeywordSetResults(q, {q.keywords[i] : i \in 1..Len(q.keywords)}, s,
                      keyword_set_parse(q, s), keyword_set_suggestion(q, s))

\* C25: a keyword-set parser parses exactly its keywords; every other string
\* fails with the parser's hints as reasons and parsed_up_to the largest
\* number of leading code points it shares with a keyword; suggestion(p) is
\* the keywords p is a strict prefix of, in declaration order, so that every
\* suggestion parses and p itself is never suggested.
C25_KeywordSet ==
    Parsed => \A q \in KeywordSetsOf(commands) : \A s \in Pieces(input) : KeywordSetAsStated(q, s)

\* "b a" in the table of alternatives with the cursor after the a: the
\* keywords ab and aa of the first alternative are suggested, ba and bb of
\* the other two are not
C25_Witness ==
    /\ Parsed /\ commands = AltTable
    /\ input = <<"b", " ", "a">> /\ pos = 3
    /\ Len(suggestions) = 2


(***************************************************************************)
(* C26: the primitive-integer argument parser.                             *)
(***************************************************************************)
IntParsersOf(table) ==
    {q \in UNION {ArgParsersOf(IF table[i].parser.kind = "help" THEN Help_parser(table)
                               ELSE table[i].parser) : i \in 1..Len(table)} :
        q.kind = "prim_int"}

\* ^-?\d+$ and the value of an input that matches it
IsNumber(s) ==
    /\ s # <<>>
    /\ \A i \in 1..Len(s) : is_digit(s[i]) \/ (i = 1 /\ s[i] = "-")
    /\ s # <<"-">>
NumberValue(s) ==
    IF s[1] = "-" THEN 0 - DecimalValue(Tail(s)) ELSE DecimalValue(s)

\* the values FromStr of the integer type of q makes: those of the type,
\* written without a sign when the type is unsigned
TypeHolds(q, s) ==
    /\ q.tmin <= NumberValue(s) /\ NumberValue(s) <= q.tmax
    /\ s[1] = "-" => q.tmin < 0

BoundReason(q, which, bound) ==
    << which \o (IF q.name.some THEN " " \o q.name.v ELSE "") \o ": " \o ToString(bound) >>

\* r is parse(s) of q, for the value v of an s that matches ^-?\d+$
RangeChecked(q, s, v, r) ==
    IF v < q.min THEN r = ArgFailed(Len(s), BoundReason(q, "min", q.min))
    ELSE IF v > q.max THEN r = ArgFailed(Len(s), BoundReason(q, "max", q.max))
    ELSE r = ArgParsed(v)

\* C26 as stated: every input that matches ^-?\d+$ fails with parsed_up_to =
\* len(input) and the reason "min name: <min>" when its value is below min,
\* with the reason "max name: <max>" when it is above max, the values outside
\* the integer type included, and is Parsed(value) otherwise.
C26_EveryValueRangeChecked ==
    Parsed => \A q \in IntParsersOf(commands) : \A s \in Pieces(input) :
                  IsNumber(s) => RangeChecked(q, s, NumberValue(s), prim_int_parse(q, s))

\* C26, amended: an input that matches ^-?\d+$ and that the integer type
\* holds is checked against min and max as stated; one the type does not
\* hold, a value outside the type or a minus sign before an unsigned value,
\* fails with parsed_up_to = len(input) and the hint of the parser as reason.
C26_TypeValuesRangeChecked ==
    Parsed => \A q \in IntParsersOf(commands) : \A s \in Pieces(input) :
                  IsNumber(s) =>
                      IF TypeHolds(q, s)
                      THEN RangeChecked(q, s, NumberValue(s), prim_int_parse(q, s))
                      ELSE prim_int_parse(q, s) = ArgFailed(Len(s), prim_int_hint(q))

\* "b -1" for b <height: 10-100> over an unsigned type: the reason shown
\* is the hint of the parser, over the argument
C26_Witness ==
    /\ Parsed /\ commands = RangeTable
    /\ input = <<"b", " ", "-", "1">>
    /\ prim_int_parse(commands[1].parser.args[1], <<"-", "1">>) =
           ArgFailed(2, <<"<height: 10-100>">>)
    /\ end_of_line_hint.some /\ end_of_line_hint.v.text = "<height: 10-100>"


(***************************************************************************)
(* C27: the suggestions of the file-path parser, checked under FileSpec.   *)
(***************************************************************************)
\* a prefix up to and with its last '/', and what follows that '/'
DirPart(p) ==
    LET S == {i \in 1..Len(p) : p[i] = "/"}
    IN IF S = {} THEN <<>> ELSE Take(p, CHOOSE i \in S : \A j \in S : j <= i)
LastPart(p) == Drop(p, Len(DirPart(p)))

\* x is the name of an entry of the directory `dir` that starts with `last`,
\* followed by '/' when the entry is a directory
IsEntryName(x, dir, last) ==
    /\ dir.ok
    /\ \E name \in FsNames :
          /\ Append(dir.node, name) \in FsDirs \cup FsFiles
          /\ starts_with(name, last)
          /\ x = IF Append(dir.node, name) \in FsDirs THEN name \o <<"/">> ELSE name

\* C27: every suggestion for a prefix is the name of an entry of the parent
\* directory of the prefix that starts with the last component of the
\* prefix, followed by '/' when the entry is a directory, and the list is
\* in ascending order; nothing else is ever suggested, also when the path or
\* its parent does not exist or cannot be read.
C27_SuggestionsAreEntries ==
    (called /\ ~fault) =>
        /\ \A i \in 1..Len(suggestions) :
              IsEntryName(suggestions[i], metadata(Path_push(FsBase, DirPart(input))),
                          LastPart(input))
        /\ \A i, j \in 1..Len(suggestions) : i < j => StrLess(suggestions[i], suggestions[j])


(***************************************************************************)
(* C28: the committed entries of the history, checked under Spec.          *)
(***************************************************************************)
\* the history without the scratch slot
Committed(h) == IF h.current # 0 THEN Tail(h.entries) ELSE h.entries

StartedKeywords == {k \in KeywordSet(commands) : StrictPrefix(input, k)}
SharedStart ==
    LET k0 == CHOOSE k \in StartedKeywords : TRUE
        N == {n \in 0..Len(k0) : \A k \in StartedKeywords : Take(k, n) = Take(k0, n) /\ n <= Len(k)}
    IN Take(k0, CHOOSE n \in N : \A m \in N : m <= n)

\* the input is one word that starts a keyword without being it, the cursor
\* is at its end and a completion is present
WordEndsAtCursor ==
    /\ Parsed /\ invoked = <<>>
    /\ input # <<>> /\ \A i \in 1..Len(input) : ~is_whitespace(input[i])
    /\ StartedKeywords # {}
    /\ pos = Len(input)
    /\ completion.some

\* what complete leaves: no completion, the word completed to the shared
\* start of the same keywords or to a keyword, a space after it at most, and
\* nothing for a second complete to change
Completed(after) ==
    /\ ~after.fault
    /\ after.completion = None
    /\ \/ after.input \in {SharedStart, SharedStart \o <<" ">>}
       \/ \E k \in KeywordSet(commands) : after.input \in {k, k \o <<" ">>}
    /\ complete(after) = after

\* C29: when the input is a single word that is a strict prefix of at least
\* one keyword, the cursor is at the end of the word and a completion is
\* present, no completion is present after complete: the word is then the
\* common prefix of the same keywords or a keyword, possibly followed by a
\* space, and a second complete changes nothing.
C29_CompleteIdempotent == WordEndsAtCursor => Completed(complete(Self))

====
